---- MODULE Spec2Model ----
(***************************************************************************)
(* graphql-sentinel scanner engine: runScan and its probers (schema fetch, *)
(* DoS depth and pagination checks, BOLA cycle) and the schema analysers   *)
(* of graphUtils.ts.  Program strings are TLA+ strings; toLowerCase,       *)
(* includes, startsWith and the template concatenations are computed       *)
(* character by character.                                                 *)
(***************************************************************************)
EXTENDS Integers, Sequences, FiniteSets, TLC

\* ------------------------------------------------------------------ text

UpperAlpha == "ABCDEFGHIJKLMNOPQRSTUVWXYZ"
LowerAlpha == "abcdefghijklmnopqrstuvwxyz"
Digits == "0123456789"

CharAt(s, i) == SubSeq(s, i, i)

\* the lower-case letter of each upper-case letter
LowerOf ==
  [c \in {CharAt(UpperAlpha, i) : i \in 1..Len(UpperAlpha)} |->
     CharAt(LowerAlpha, CHOOSE i \in 1..Len(UpperAlpha) : CharAt(UpperAlpha, i) = c)]

\* String.prototype.toLowerCase, one character
LowerChar(c) == IF c \in DOMAIN LowerOf THEN LowerOf[c] ELSE c

\* String.prototype.toLowerCase
RECURSIVE toLowerCase(_)
toLowerCase(s) ==
  IF Len(s) = 0 THEN ""
  ELSE LowerChar(CharAt(s, 1)) \o toLowerCase(SubSeq(s, 2, Len(s)))

\* String.prototype.includes
includes(s, sub) ==
  \E i \in 0..(Len(s) - Len(sub)) : SubSeq(s, i + 1, i + Len(sub)) = sub

\* String.prototype.startsWith
startsWith(s, p) == Len(s) >= Len(p) /\ SubSeq(s, 1, Len(p)) = p

\* Array.prototype.join over an array of strings
RECURSIVE join(_, _)
join(parts, sep) ==
  IF Len(parts) = 0 THEN ""
  ELSE IF Len(parts) = 1 THEN parts[1]
  ELSE parts[1] \o sep \o join(Tail(parts), sep)

\* a number interpolated into a template string
RECURSIVE NumStr(_)
NumStr(n) ==
  IF n < 10 THEN CharAt(Digits, n + 1)
  ELSE NumStr(n \div 10) \o CharAt(Digits, (n % 10) + 1)

\* optional values: undefined (None) or present (Some)
None == <<>>
Some(x) == <<x>>
IsSome(o) == Len(o) = 1
Val(o) == o[1]

Range(s) == {s[i] : i \in 1..Len(s)}

\* --------------------------------------------------- schema (graphql-js)

\* a type reference: wrappers outermost first, around a named type
NamedT(n) == [wraps |-> <<>>, name |-> n]
NonNullT(t) == [wraps |-> <<"NonNull">> \o t.wraps, name |-> t.name]
ListT(t) == [wraps |-> <<"List">> \o t.wraps, name |-> t.name]

isNonNullType(t) == Len(t.wraps) > 0 /\ t.wraps[1] = "NonNull"
isListType(t) == Len(t.wraps) > 0 /\ t.wraps[1] = "List"
ofType(t) == [wraps |-> Tail(t.wraps), name |-> t.name]
getNamedType(t) == NamedT(t.name)

Arg(n, t) == [name |-> n, type |-> t]
Field(n, t, args) == [name |-> n, type |-> t, args |-> args]

\* schema.getQueryType() / getMutationType(): None or the root type's name;
\* schema.types: every named type, with its kind and (objects) its fields
isObjectType(schema, t) ==
  /\ t.wraps = <<>>
  /\ t.name \in DOMAIN schema.types
  /\ schema.types[t.name].kind = "OBJECT"

getFields(schema, typeName) == schema.types[typeName].fields

\* Array.prototype.find: the first index whose element satisfies P, or 0
FindIndex(s, P(_)) ==
  IF \E i \in 1..Len(s) : P(s[i])
  THEN CHOOSE i \in 1..Len(s) : P(s[i]) /\ \A j \in 1..(i - 1) : ~P(s[j])
  ELSE 0

\* the pagination allowlist of findListFields
PaginationArgs == {"first", "last", "before", "after", "limit", "offset"}

commonListNames ==
  <<"users", "posts", "items", "orders", "products", "nodes", "edges",
    "connections", "list", "all", "get">>

hasRequiredNonPaginationArgs(field) ==
  LET requiredArgs == SelectSeq(field.args, LAMBDA arg : isNonNullType(arg.type))
  IN \E i \in 1..Len(requiredArgs) :
       toLowerCase(requiredArgs[i].name) \notin PaginationArgs

\* the isList flag findListFields computes for a root field
returnsList(field) ==
  LET unwrapped == IF isNonNullType(field.type) THEN ofType(field.type) ELSE field.type
  IN isListType(unwrapped)

qualifiesAsListField(field) ==
  returnsList(field) /\ ~hasRequiredNonPaginationArgs(field)

\* findListFields(schema): schema is None (null) or Some(schema)
findListFields(schema) ==
  IF ~IsSome(schema) THEN commonListNames
  ELSE LET s == Val(schema)
           fields == IF IsSome(s.queryType) THEN getFields(s, Val(s.queryType)) ELSE <<>>
           kept == SelectSeq(fields, qualifiesAsListField)
           listFields == [i \in 1..Len(kept) |-> kept[i].name]
       IN IF Len(listFields) > 0 THEN listFields ELSE commonListNames

\* the candidate test of generateDeepQuery's find
isDeepCandidate(schema, currentTypeName, f) ==
  LET fieldType == f.type
      namedType == getNamedType(fieldType)
  IN /\ ~(isListType(fieldType)
          \/ (isNonNullType(fieldType) /\ isListType(ofType(fieldType))))
     /\ ~(\E i \in 1..Len(f.args) : isNonNullType(f.args[i].type))
     /\ isObjectType(schema, namedType)
     /\ namedType.name # currentTypeName

\* the for loop of generateDeepQuery that collects the path
\* the walk with one more iteration than depth
RECURSIVE deepPathInclusive(_, _, _, _)
deepPathInclusive(schema, currentTypeName, i, depth) ==
  IF i > depth THEN <<>>
  ELSE LET fields == getFields(schema, currentTypeName)
           k == FindIndex(fields, LAMBDA f : isDeepCandidate(schema, currentTypeName, f))
       IN IF k = 0 THEN <<>>
          ELSE <<fields[k].name>>
               \o deepPathInclusive(schema, getNamedType(fields[k].type).name, i + 1, depth)

RECURSIVE deepPath(_, _, _, _)
deepPath(schema, currentTypeName, i, depth) ==
  IF i >= depth THEN <<>>
  ELSE LET fields == getFields(schema, currentTypeName)
           k == FindIndex(fields, LAMBDA f : isDeepCandidate(schema, currentTypeName, f))
       IN IF k = 0 THEN <<>>
          ELSE <<fields[k].name>>
               \o deepPath(schema, getNamedType(fields[k].type).name, i + 1, depth)

RECURSIVE openFields(_)
openFields(names) ==
  IF Len(names) = 0 THEN "" ELSE " " \o names[1] \o " {" \o openFields(Tail(names))

RECURSIVE closeBraces(_)
closeBraces(n) == IF n = 0 THEN "" ELSE " }" \o closeBraces(n - 1)

\* the names node, child0, child1, ... of the generic query
genericNames(depth) ==
  [i \in 1..depth |-> IF i = 1 THEN "node" ELSE "child" \o NumStr(i - 2)]

\* generateDeepQuery(depth, schema)
generateDeepQuery(depth, schema) ==
  LET path == IF IsSome(schema) /\ IsSome(Val(schema).queryType)
              THEN deepPath(Val(schema), Val(Val(schema).queryType), 0, depth)
              ELSE <<>>
  IN IF Len(path) > 0
     THEN "{" \o openFields(path) \o " id __typename " \o closeBraces(Len(path)) \o " }"
     ELSE "{" \o openFields(genericNames(depth)) \o " id __typename "
              \o closeBraces(depth) \o " }"

\* the predicate of findBolaPointsOfInterest's args.find
isIdArg(arg) ==
  getNamedType(arg.type).name = "ID" \/ includes(toLowerCase(arg.name), "id")

\* None or the last matching argument
findLastIdArg(field) ==
  LET hits == SelectSeq(field.args, isIdArg)
  IN IF Len(hits) = 0 THEN None ELSE Some(hits[Len(hits)])

\* field.args.find(...): None or the first matching argument
findIdArg(field) ==
  LET k == FindIndex(field.args, isIdArg)
  IN IF k = 0 THEN None ELSE Some(field.args[k])

\* processFields(fields, operation): points in field order
processFields(fields, operation, targetObjectTypes) ==
  LET wanted(f) ==
        /\ IsSome(findIdArg(f))
        /\ \/ ~IsSome(targetObjectTypes)
           \/ Len(Val(targetObjectTypes)) = 0
           \/ getNamedType(f.type).name \in Range(Val(targetObjectTypes))
      kept == SelectSeq(fields, wanted)
  IN [i \in 1..Len(kept) |->
        [fieldName |-> kept[i].name,
         idArgName |-> Val(findIdArg(kept[i])).name,
         operation |-> operation,
         returnTypeName |-> getNamedType(kept[i].type).name]]

rootFields(schema, root) ==
  IF IsSome(root) THEN getFields(schema, Val(root)) ELSE <<>>

\* findBolaPointsOfInterest(schema, targetObjectTypes)
findBolaPointsOfInterest(schema, targetObjectTypes) ==
  processFields(rootFields(schema, schema.queryType), "query", targetObjectTypes)
  \o processFields(rootFields(schema, schema.mutationType), "mutation", targetObjectTypes)

\* ------------------------------------------- schemas the analysers are run on

MaxRootFields == 2
MaxDepth == 3

TID == NamedT("ID")
TInt == NamedT("Int")
TString == NamedT("String")
TBoolean == NamedT("Boolean")
TUser == NamedT("User")
TOrder == NamedT("Order")
TProfile == NamedT("Profile")

UserFields ==
  <<Field("id", NonNullT(TID), <<>>),
    Field("name", TString, <<>>),
    Field("bestFriend", TUser, <<>>),
    Field("orders", ListT(TOrder), <<>>),
    Field("profile", TProfile, <<>>)>>

ProfileFields ==
  <<Field("id", TID, <<>>), Field("owner", NonNullT(TUser), <<>>)>>

OrderFields ==
  <<Field("id", NonNullT(TID), <<>>), Field("total", TInt, <<>>)>>

\* candidate root query fields
QueryFieldPool ==
  { Field("users", NonNullT(ListT(NonNullT(TUser))), <<Arg("first", NonNullT(TInt))>>),
    Field("users", ListT(TUser), <<Arg("orgId", NonNullT(TID))>>),
    Field("orders", ListT(TOrder),
          <<Arg("First", NonNullT(TInt)), Arg("filter", TString)>>),
    Field("me", TUser, <<>>),
    Field("user", TUser, <<Arg("id", NonNullT(TID))>>),
    Field("order", TOrder,
          <<Arg("slug", TString), Arg("orderId", TString), Arg("id", TID)>>),
    Field("profile", NonNullT(TProfile), <<>>),
    Field("search", ListT(TUser), <<Arg("valid", NonNullT(TBoolean))>>) }

\* candidate root mutation fields
MutationFieldPool ==
  { Field("updateOrder", TOrder, <<Arg("input", TString), Arg("id", NonNullT(TID))>>),
    Field("ping", TString, <<>>) }

DistinctNames(fs) ==
  \A i, j \in 1..Len(fs) : i # j => fs[i].name # fs[j].name

FieldSeqs(pool, n) ==
  { fs \in UNION { [1..k -> pool] : k \in 0..n } : DistinctNames(fs) }

Scalar == [kind |-> "SCALAR", fields |-> <<>>]
Object(fields) == [kind |-> "OBJECT", fields |-> fields]

\* a client schema as buildClientSchema returns it
MkSchema(queryFields, mutationFields, hasMutation) ==
  [queryType |-> Some("Query"),
   mutationType |-> IF hasMutation THEN Some("Mutation") ELSE None,
   types |-> [n \in {"ID", "Int", "String", "Boolean", "Query", "Mutation",
                     "User", "Order", "Profile"} |->
                CASE n = "Query" -> Object(queryFields)
                  [] n = "Mutation" -> Object(mutationFields)
                  [] n = "User" -> Object(UserFields)
                  [] n = "Order" -> Object(OrderFields)
                  [] n = "Profile" -> Object(ProfileFields)
                  [] OTHER -> Scalar]]

SchemaPool ==
  { MkSchema(q, <<>>, FALSE) : q \in FieldSeqs(QueryFieldPool, MaxRootFields) }
  \cup { MkSchema(q, m, TRUE) : q \in FieldSeqs(QueryFieldPool, 1),
                                m \in FieldSeqs(MutationFieldPool, 1) }

TargetTypeChoices == {None, Some(<<>>), Some(<<"Order">>), Some(<<"User", "Profile">>)}

\* ------------------------------------------- HTTP outcomes and JS errors

\* response.data.errors: absent, an array of entries, or a truthy non-array
NoErrors == [tag |-> "absent", items |-> <<>>]
ErrorsArray(items) == [tag |-> "array", items |-> items]
ErrorsOther == [tag |-> "other", items |-> <<>>]

\* an entry of the errors array: null, or an object with or without message
Entry(m) == [isNull |-> FALSE, message |-> Some(m)]
EntryNoMessage == [isNull |-> FALSE, message |-> None]
EntryNull == [isNull |-> TRUE, message |-> None]

\* response.data.data[fieldName] (for introspection: response.data.data)
DataNull == [tag |-> "null", len |-> 0, keys |-> <<>>, schema |-> 0]
DataArray(n) == [tag |-> "array", len |-> n, keys |-> <<>>, schema |-> 0]
DataObject(keys) == [tag |-> "object", len |-> 0, keys |-> keys, schema |-> 0]
DataScalar == [tag |-> "scalar", len |-> 0, keys |-> <<>>, schema |-> 0]
DataSchema(ix) == [tag |-> "schema", len |-> 0, keys |-> <<>>, schema |-> ix]
DataInvalid == [tag |-> "invalid", len |-> 0, keys |-> <<>>, schema |-> 0]

\* what `await axios.post(...)` settles with: a 2xx response (ok), or an
\* AxiosError with a response (http) or without one (net)
Ok(errors, data) ==
  [isAxios |-> FALSE, kind |-> "ok", status |-> 200, statusText |-> "OK",
   code |-> None, message |-> "", errors |-> errors, bodyMessage |-> None,
   data |-> data]
Http(status, statusText, code, errors, bodyMessage, data) ==
  [isAxios |-> TRUE, kind |-> "http", status |-> status, statusText |-> statusText,
   code |-> code, message |-> "Request failed with status code " \o NumStr(status),
   errors |-> errors, bodyMessage |-> bodyMessage, data |-> data]
Net(code, message) ==
  [isAxios |-> TRUE, kind |-> "net", status |-> 0, statusText |-> "",
   code |-> code, message |-> message, errors |-> NoErrors, bodyMessage |-> None,
   data |-> DataNull]
\* an Error that is not an AxiosError (TypeError, Error)
JsError(message) ==
  [isAxios |-> FALSE, kind |-> "js", status |-> 0, statusText |-> "",
   code |-> None, message |-> message, errors |-> NoErrors, bodyMessage |-> None,
   data |-> DataNull]

\* the result of evaluating an expression: a value, or an exception thrown
Return(v) == [thrown |-> None, value |-> v]
Throw(message) == [thrown |-> Some(JsError(message)), value |-> FALSE]

TypeErrorNull == "Cannot read properties of null (reading 'message')"
TypeErrorUndefined == "Cannot read properties of undefined (reading 'toLowerCase')"
TypeErrorSome == "errors.some is not a function"
InvalidIntrospection == "Invalid or incomplete introspection result."

\* e.message || String(e)
entryText(e) ==
  IF IsSome(e.message) /\ Val(e.message) # "" THEN Val(e.message)
  ELSE "[object Object]"

\* getErrorMessage(error)
getErrorMessage(error) ==
  IF error.isAxios
  THEN IF error.kind = "http" /\ error.errors.tag = "array"
       THEN IF \E i \in 1..Len(error.errors.items) : error.errors.items[i].isNull
            THEN Throw(TypeErrorNull)
            ELSE Return("GraphQL Error: "
                        \o join([i \in 1..Len(error.errors.items) |->
                                   entryText(error.errors.items[i])], ", "))
       ELSE IF error.kind = "http" /\ IsSome(error.bodyMessage)
               /\ Val(error.bodyMessage) # ""
       THEN Return("API Error " \o NumStr(error.status) \o ": " \o Val(error.bodyMessage))
       ELSE IF error.kind = "http" /\ error.statusText # ""
       THEN Return("HTTP Error " \o NumStr(error.status) \o ": " \o error.statusText)
       ELSE IF IsSome(error.code) /\ Val(error.code) # ""
       THEN Return("Network Error: " \o Val(error.code))
       ELSE IF \/ (IsSome(error.code) /\ Val(error.code) = "ECONNABORTED")
               \/ (error.message # "" /\ includes(toLowerCase(error.message), "timeout"))
       THEN Return("Timeout de la petición")
       ELSE Return(error.message)
  ELSE Return(error.message)

\* errors.some((e) => P(e.message.toLowerCase())), entries tested in order:
\* a null entry or one without message throws unless an earlier entry matched
someMessage(errors, P(_)) ==
  IF errors.tag = "other" THEN Throw(TypeErrorSome)
  ELSE LET items == errors.items
           bad(e) == e.isNull \/ ~IsSome(e.message)
           hit(e) == ~bad(e) /\ P(toLowerCase(Val(e.message)))
           stop == FindIndex(items, LAMBDA e : bad(e) \/ hit(e))
       IN IF stop = 0 THEN Return(FALSE)
          ELSE IF hit(items[stop]) THEN Return(TRUE)
          ELSE IF items[stop].isNull THEN Throw(TypeErrorNull)
          ELSE Throw(TypeErrorUndefined)

\* `errors && errors.some(...)`
truthyAndSome(errors, P(_)) ==
  IF errors.tag = "absent" THEN Return(FALSE) ELSE someMessage(errors, P)

\* ---------------------------------------------------------------- findings

NoProbe ==
  [attacker |-> "", victim |-> "", operation |-> "", fieldName |-> "",
   idArgName |-> "", objectId |-> ""]

\* createFinding(severity, description, recommendation, evidence): description
\* is the fixed text of the template and subject what is interpolated into it;
\* detail is the error text or count interpolated into the recommendation
createFinding(severity, description, subject, detail) ==
  [severity |-> severity, description |-> description, subject |-> subject,
   detail |-> detail, probe |-> NoProbe]

Push(findings, f) == [thrown |-> None, findings |-> Append(findings, f)]
Keep(findings) == [thrown |-> None, findings |-> findings]
Escape(thrown, findings) == [thrown |-> thrown, findings |-> findings]

DEFAULT_DEPTH_LIMIT == 7
MAX_LIST_ITEMS_THRESHOLD == 100
DOS_INTER_REQUEST_DELAY == 50
BOLA_INTER_REQUEST_DELAY == 50

\* handlePotentialDosError(error, checkType, findings)
handlePotentialDosError(error, checkType, findings) ==
  LET gqlErrors == IF error.isAxios /\ error.kind = "http" THEN error.errors ELSE NoErrors
      errorMessage == getErrorMessage(error)
      limited == truthyAndSome(gqlErrors,
                   LAMBDA m : \/ includes(m, "limit")
                              \/ includes(m, "complexity")
                              \/ includes(m, "depth"))
  IN IF IsSome(errorMessage.thrown) THEN Escape(errorMessage.thrown, findings)
     ELSE IF IsSome(limited.thrown) THEN Escape(limited.thrown, findings)
     ELSE IF limited.value THEN Keep(findings)
     ELSE IF includes(toLowerCase(errorMessage.value), "timeout")
     THEN Push(findings, createFinding("Medium", "Timeout en Chequeo DoS", checkType, ""))
     ELSE Push(findings, createFinding("Low", "Error Inesperado en Chequeo DoS",
                                       checkType, errorMessage.value))

\* runDosChecks, the depth check once its request has settled with r
depthCheck(r, findings) ==
  IF r.kind = "ok"
  THEN Push(findings, createFinding("Medium", "Potencial DoS por Profundidad", "",
                                    NumStr(DEFAULT_DEPTH_LIMIT)))
  ELSE handlePotentialDosError(r, "profundidad", findings)

\* a list check that reports from the threshold itself on
listCheckInclusive(r, fieldName, findings) ==
  IF r.kind = "ok" /\ r.data.tag = "array" /\ r.data.len >= MAX_LIST_ITEMS_THRESHOLD
  THEN Push(findings, createFinding("High", "Potencial DoS por Falta de Paginación",
                                    fieldName, NumStr(r.data.len)))
  ELSE Keep(findings)

\* runDosChecks, the body of the list loop once the request has settled with r
listCheck(r, fieldName, findings) ==
  IF r.kind = "ok"
  THEN LET results == r.data
           paginated == truthyAndSome(r.errors,
                          LAMBDA m : includes(m, "pagination") \/ includes(m, "limit"))
       IN IF IsSome(paginated.thrown)
          THEN handlePotentialDosError(Val(paginated.thrown), "lista " \o fieldName, findings)
          ELSE IF paginated.value THEN Keep(findings)
          ELSE IF results.tag = "array" /\ results.len > MAX_LIST_ITEMS_THRESHOLD
          THEN Push(findings, createFinding("High", "Potencial DoS por Falta de Paginación",
                                            fieldName, NumStr(results.len)))
          ELSE Keep(findings)
  ELSE handlePotentialDosError(r, "lista " \o fieldName, findings)

\* getSchema once the introspection request has settled with r:
\* [thrown, findings, schema], schema None (null) or Some(index of the schema)
getSchema(r, findings) ==
  IF r.kind = "ok"
  THEN LET f1 == IF r.errors.tag # "absent"
                 THEN Append(findings, createFinding("Info",
                                "Introspection Query con Errores", "", ""))
                 ELSE findings
       IN IF r.data.tag = "schema"
          THEN [thrown |-> None, schema |-> Some(r.data.schema),
                findings |-> Append(f1, createFinding("Info",
                                "Introspection Habilitada", "", ""))]
          ELSE IF r.data.tag = "null"
          THEN [thrown |-> None, schema |-> None,
                findings |-> Append(f1, createFinding("Low",
                                "Introspection Deshabilitada o Fallida", "", ""))]
          ELSE \* buildClientSchema throws, the catch block reports it
               [thrown |-> None, schema |-> None,
                findings |-> Append(f1, createFinding("Low",
                                "Introspection Deshabilitada o Fallida", "",
                                getErrorMessage(JsError(InvalidIntrospection)).value))]
  ELSE LET errorMessage == getErrorMessage(r)
       IN IF IsSome(errorMessage.thrown)
          THEN [thrown |-> errorMessage.thrown, schema |-> None, findings |-> findings]
          ELSE [thrown |-> None, schema |-> None,
                findings |-> Append(findings, createFinding("Low",
                                "Introspection Deshabilitada o Fallida", "",
                                errorMessage.value))]

\* --------------------------------------------------------------- BOLA

UpperChar(c) ==
  IF \E i \in 1..Len(LowerAlpha) : CharAt(LowerAlpha, i) = c
  THEN CharAt(UpperAlpha, CHOOSE i \in 1..Len(LowerAlpha) : CharAt(LowerAlpha, i) = c)
  ELSE c

endsWith(s, p) == Len(s) >= Len(p) /\ SubSeq(s, Len(s) - Len(p) + 1, Len(s)) = p

\* fieldName.replace(/^(get|find|list|all)/i, '')
stripPrefix(s) ==
  LET low == toLowerCase(s)
      n == IF startsWith(low, "get") THEN 3
           ELSE IF startsWith(low, "find") THEN 4
           ELSE IF startsWith(low, "list") THEN 4
           ELSE IF startsWith(low, "all") THEN 3
           ELSE 0
  IN SubSeq(s, n + 1, Len(s))

\* typeName.replace(/(ById|Connection|Edge|s)$/i, ''): the leftmost match is
\* the longest of the alternatives that ends the string
stripSuffix(s) ==
  LET low == toLowerCase(s)
      n == IF endsWith(low, "connection") THEN 10
           ELSE IF endsWith(low, "byid") \/ endsWith(low, "edge") THEN 4
           ELSE IF endsWith(low, "s") THEN 1
           ELSE 0
  IN SubSeq(s, 1, Len(s) - n)

\* inferObjectTypeFromFieldName(fieldName)
inferObjectTypeFromFieldName(fieldName) ==
  LET typeName == stripSuffix(stripPrefix(fieldName))
  IN IF typeName = "" THEN "Object"
     ELSE UpperChar(CharAt(typeName, 1)) \o SubSeq(typeName, 2, Len(typeName))

\* buildHeaders(authToken): the Authorization header, None when no token
buildHeaders(authToken) ==
  IF IsSome(authToken) /\ Val(authToken) # ""
  THEN Some("Bearer " \o Val(authToken))
  ELSE None

\* victimContext.ownedObjectIds[objectType] || []
ownedIds(ctx, objectType) ==
  IF objectType \in DOMAIN ctx.ownedObjectIds THEN ctx.ownedObjectIds[objectType]
  ELSE <<>>

objectTypeOf(point) ==
  IF point.returnTypeName # "" THEN point.returnTypeName
  ELSE inferObjectTypeFromFieldName(point.fieldName)

RECURSIVE Concat(_)
Concat(ss) == IF Len(ss) = 0 THEN <<>> ELSE ss[1] \o Concat(Tail(ss))

\* the iterations of nested loops in which a context is its own victim too
BolaPlanWithSelf(userContexts, bolaPoints) ==
  LET n == Len(userContexts)
      ids(v, p) == ownedIds(userContexts[v], objectTypeOf(bolaPoints[p]))
      forIds(a, v, p) ==
        [k \in 1..Len(ids(v, p)) |->
           [attacker |-> userContexts[a], victim |-> userContexts[v],
            point |-> bolaPoints[p], victimObjectId |-> ids(v, p)[k]]]
      forPoints(a, v) == Concat([p \in 1..Len(bolaPoints) |-> forIds(a, v, p)])
  IN Concat([a \in 1..n |-> Concat([v \in 1..n |-> forPoints(a, v)])])

\* the four nested for loops of runBolaChecks, in iteration order, before the
\* set-membership test: one entry per (attacker, victim, point, victimObjectId)
BolaPlan(userContexts, bolaPoints) ==
  LET n == Len(userContexts)
      ids(v, p) == ownedIds(userContexts[v], objectTypeOf(bolaPoints[p]))
      forIds(a, v, p) ==
        [k \in 1..Len(ids(v, p)) |->
           [attacker |-> userContexts[a], victim |-> userContexts[v],
            point |-> bolaPoints[p], victimObjectId |-> ids(v, p)[k]]]
      forPoints(a, v) == Concat([p \in 1..Len(bolaPoints) |-> forIds(a, v, p)])
      forVictims(a) ==
        Concat([v \in 1..n |->
                  IF userContexts[a].id = userContexts[v].id THEN <<>>
                  ELSE forPoints(a, v)])
  IN Concat([a \in 1..n |-> forVictims(a)])

\* `${attackerContext.id}-${point.operation}-${point.fieldName}-${victimObjectId}`
testKey(e) ==
  e.attacker.id \o "-" \o e.point.operation \o "-" \o e.point.fieldName
  \o "-" \o e.victimObjectId

\* the last entry from index i on that is not skipped as already tested (0: none)
NextProbeLast(plan, i, tested) ==
  IF \E j \in i..Len(plan) : testKey(plan[j]) \notin tested
  THEN CHOOSE j \in i..Len(plan) :
         /\ testKey(plan[j]) \notin tested
         /\ \A k \in (j + 1)..Len(plan) : testKey(plan[k]) \in tested
  ELSE 0

\* the next entry from index i on when nothing is skipped (0: none)
NextProbeUnfiltered(plan, i, tested) == IF i <= Len(plan) THEN i ELSE 0

\* the next entry from index i on that is not skipped as already tested (0: none)
NextProbe(plan, i, tested) ==
  IF \E j \in i..Len(plan) : testKey(plan[j]) \notin tested
  THEN CHOOSE j \in i..Len(plan) :
         /\ testKey(plan[j]) \notin tested
         /\ \A k \in i..(j - 1) : testKey(plan[k]) \in tested
  ELSE 0

probeOf(e) ==
  [attacker |-> e.attacker.id, victim |-> e.victim.id,
   operation |-> e.point.operation, fieldName |-> e.point.fieldName,
   idArgName |-> e.point.idArgName, objectId |-> e.victimObjectId]

\* responseData && typeof responseData === 'object' && responseData !== null
isTruthyObject(d) == d.tag \in {"object", "array"}
isTruthy(d) == d.tag \in {"object", "array", "scalar"}

\* Object.keys(responseData).filter((k) => k !== '__typename').length
usefulKeys(d) ==
  IF d.tag = "array" THEN d.len
  ELSE Len(SelectSeq(d.keys, LAMBDA k : k # "__typename"))

\* a grading that does not look at the operation
bolaSeverityFlat(point) == "High"

\* const severity = point.operation === 'mutation' ? 'Critical' : 'High'
bolaSeverity(point) == IF point.operation = "mutation" THEN "Critical" ELSE "High"

\* analyzeBolaResponse(findings, attacker, victim, point, victimObjectId,
\*                     responseData, responseErrors, query)
analyzeBolaResponse(findings, e, responseData, responseErrors) ==
  LET denied == truthyAndSome(responseErrors,
                  LAMBDA m : \/ includes(m, "unauthorized")
                             \/ includes(m, "forbidden")
                             \/ includes(m, "access denied")
                             \/ (includes(m, "not found") /\ ~isTruthy(responseData)))
  IN IF IsSome(denied.thrown) THEN Escape(denied.thrown, findings)
     ELSE IF denied.value THEN Keep(findings)
     ELSE IF isTruthyObject(responseData)
     THEN IF usefulKeys(responseData) > 0 \/ responseData.tag = "array"
          THEN Push(findings,
                    [createFinding(bolaSeverity(e.point), "BOLA Detectado",
                                   e.point.fieldName, "")
                       EXCEPT !.probe = probeOf(e)])
          ELSE Keep(findings)
     ELSE Keep(findings)

\* the catch block of the BOLA request (bolaTester.ts 137-154)
bolaCatch(error, e, findings) ==
  IF error.isAxios /\ error.kind = "http" /\ error.status \in {401, 403}
  THEN Keep(findings)
  ELSE LET errorMessage == getErrorMessage(error)
       IN IF IsSome(errorMessage.thrown) THEN Escape(errorMessage.thrown, findings)
          ELSE Push(findings,
                    [createFinding("Low", "Error Inesperado en Prueba BOLA",
                                   e.point.fieldName, errorMessage.value)
                       EXCEPT !.probe = probeOf(e)])

\* runBolaChecks, the body of the innermost loop once the request settled with r
bolaCheck(r, e, findings) ==
  IF r.kind = "ok"
  THEN LET analysed == analyzeBolaResponse(findings, e, r.data, r.errors)
       IN IF IsSome(analysed.thrown)
          THEN bolaCatch(Val(analysed.thrown), e, findings)
          ELSE analysed
  ELSE bolaCatch(r, e, findings)

\* a runBolaChecks that reports when it is skipped
runBolaChecksStartReporting(userContexts, targetObjectTypes, schema, bolaPoints, findings) ==
  IF Len(userContexts) >= 2 /\ IsSome(schema) /\ Len(bolaPoints) > 0
  THEN [skip |-> FALSE, findings |-> findings]
  ELSE [skip |-> TRUE,
        findings |-> Append(findings, createFinding("Info", "Chequeo BOLA omitido", "", ""))]

\* runBolaChecks up to its loop (bolaTester.ts 26-73): whether the loop is
\* skipped, and the findings after the Info finding of an empty point set
runBolaChecksStart(userContexts, targetObjectTypes, schema, bolaPoints, findings) ==
  IF ~(Len(userContexts) >= 2) THEN [skip |-> TRUE, findings |-> findings]
  ELSE IF ~IsSome(schema) THEN [skip |-> TRUE, findings |-> findings]
  ELSE IF Len(bolaPoints) = 0
  THEN IF ~IsSome(targetObjectTypes) \/ Len(Val(targetObjectTypes)) = 0
       THEN [skip |-> TRUE,
             findings |-> Append(findings, createFinding("Info",
                            "No se encontraron puntos de prueba BOLA", "", ""))]
       ELSE [skip |-> TRUE,
             findings |-> Append(findings, createFinding("Info",
                            "No se encontraron puntos de prueba BOLA para los tipos especificados",
                            join(Val(targetObjectTypes), ", "), ""))]
  ELSE [skip |-> FALSE, findings |-> findings]

\* a catch block that hands the error on to the caller of runScan
runScanCatchRethrowing(error, findings) ==
  [thrown |-> Some(error), scanStatus |-> "Running", scanError |-> None,
   findings |-> findings]

\* a catch block that records the error text and adds no finding
runScanCatchSilent(error, findings) ==
  [thrown |-> None, scanStatus |-> "Failed",
   scanError |-> Some(getErrorMessage(error).value), findings |-> findings]

\* the catch block of runScan (index.ts 294-303); thrown is what escapes it
runScanCatch(error, findings) ==
  LET errorMessage == getErrorMessage(error)
      scanError == errorMessage.value
  IN IF IsSome(errorMessage.thrown)
     THEN [thrown |-> errorMessage.thrown, scanStatus |-> "Failed",
           scanError |-> None, findings |-> findings]
     ELSE [thrown |-> None,
           scanStatus |-> "Failed",
           scanError |-> Some(scanError),
           findings |-> IF ~startsWith(scanError, "No se pudo conectar")
                        THEN Append(findings, createFinding("Critical",
                                      "Error Fatal Durante el Escaneo", "", scanError))
                        ELSE findings]

\* the catch block of the connectivity check (index.ts 281-285): the error it throws
connectivityError(url, error) ==
  LET errorMessage == getErrorMessage(error)
  IN IF IsSome(errorMessage.thrown) THEN Val(errorMessage.thrown)
     ELSE JsError("No se pudo conectar a " \o url
                  \o ". Verifica la URL, la red y el token inicial si aplica. Error: "
                  \o errorMessage.value)

\* ------------------------------------------------------- scans that are run

\* bound: how many requests of one scan, from introspection on, the server
\* answers otherwise than with its nominal answer
MaxOffNominal == 1

url == "http://x/gql"

Owns(objectType, ids) == [t \in {objectType} |-> ids]
OwnsNothing == [t \in {} |-> <<>>]

UserContext(id, authToken, ownedObjectIds) ==
  [id |-> id, authToken |-> authToken, ownedObjectIds |-> ownedObjectIds]

ScanTarget(userContexts, targetObjectTypes) ==
  [url |-> url, userContexts |-> userContexts, targetObjectTypes |-> targetObjectTypes]

Targets ==
  { ScanTarget(<<UserContext("a", "ta", OwnsNothing)>>, None),
    ScanTarget(<<UserContext("a", "ta", Owns("Order", <<"o1">>) @@ Owns("User", <<"u1">>)),
                 UserContext("b", "tb", Owns("Order", <<"o1", "o1">>))>>, None),
    ScanTarget(<<UserContext("a", "ta", OwnsNothing),
                 UserContext("b", "tb", Owns("Order", <<"o1">>)),
                 UserContext("c", "", Owns("Order", <<"o1">>))>>, Some(<<"Order">>)) }

\* the schemas the server may disclose to introspection
ScanSchemas ==
  << MkSchema(<<Field("users", NonNullT(ListT(NonNullT(TUser))),
                      <<Arg("first", NonNullT(TInt))>>),
                Field("order", TOrder,
                      <<Arg("slug", TString), Arg("orderId", TString), Arg("id", TID)>>)>>,
              <<Field("updateOrder", TOrder,
                      <<Arg("input", TString), Arg("id", NonNullT(TID))>>)>>, TRUE),
     MkSchema(<<Field("me", TUser, <<>>),
                Field("users", ListT(TUser), <<Arg("orgId", NonNullT(TID))>>),
                Field("orders", ListT(TOrder), <<Arg("first", TInt)>>)>>,
              <<>>, FALSE),
     MkSchema(<<Field("orders", ListT(TOrder),
                      <<Arg("First", NonNullT(TInt)), Arg("filter", TString)>>),
                Field("me", TUser, <<>>)>>,
              <<Field("ping", TString, <<>>)>>, TRUE) >>

\* the schema a scan holds: null, or the one parsed from the introspection data
SchemaOf(schema) == IF IsSome(schema) THEN Some(ScanSchemas[Val(schema)]) ELSE None

StatusText(status) ==
  CASE status = 400 -> "Bad Request"
    [] status = 401 -> "Unauthorized"
    [] status = 403 -> "Forbidden"
    [] OTHER -> "Internal Server Error"

E(message) == ErrorsArray(<<Entry(message)>>)
H(status, errors) ==
  Http(status, StatusText(status), Some("ERR_BAD_RESPONSE"), errors, None, DataNull)

Refused == Net(Some("ECONNREFUSED"), "connect ECONNREFUSED 127.0.0.1:80")
TimedOut == Net(Some("ECONNABORTED"), "timeout of 15000ms exceeded")
NoCode == Net(None, "maxContentLength size of 2000 exceeded")

ConnectivityResponses ==
  { Ok(NoErrors, DataObject(<<"__typename">>)),
    Ok(E("Unknown field"), DataNull),
    H(500, NoErrors),
    H(401, E("Unauthorized")),
    H(500, ErrorsArray(<<EntryNull>>)),
    Http(500, "", Some("ERR_BAD_RESPONSE"), NoErrors, None, DataNull),
    Http(500, "Internal Server Error", None, NoErrors, Some("No se pudo conectar"), DataNull),
    Refused, TimedOut, NoCode }

NominalIntrospection == {Ok(NoErrors, DataSchema(i)) : i \in 1..Len(ScanSchemas)}

IntrospectionResponses ==
  NominalIntrospection
  \cup {
    Ok(E("Unknown field"), DataSchema(1)),
    Ok(E("Introspection is disabled"), DataNull),
    Ok(NoErrors, DataNull),
    Ok(ErrorsArray(<<>>), DataInvalid),
    H(500, NoErrors),
    H(400, ErrorsArray(<<EntryNull>>)),
    TimedOut }

\* failed requests of a probe
ProbeErrors ==
  { H(400, E("Max DEPTH of 5 exceeded")),
    H(400, E("Complexity too high")),
    H(400, E("Rate limit hit")),
    H(400, E("Pagination required")),
    H(401, NoErrors),
    H(403, E("Forbidden")),
    H(400, E("Forbidden")),
    H(500, NoErrors),
    H(500, E("upstream timeout")),
    H(400, ErrorsArray(<<EntryNoMessage>>)),
    H(400, ErrorsArray(<<EntryNull>>)),
    H(400, ErrorsArray(<<Entry("limit"), EntryNoMessage>>)),
    H(400, ErrorsOther),
    Refused, TimedOut, NoCode }

NominalDepth == {Ok(NoErrors, DataObject(<<"node">>))}

DepthResponses ==
  ProbeErrors
  \cup NominalDepth
  \cup {
         Ok(E("Max DEPTH of 5 exceeded"), DataNull) }

NominalList == {Ok(NoErrors, DataArray(MAX_LIST_ITEMS_THRESHOLD))}

ListResponses ==
  ProbeErrors
  \cup NominalList
  \cup {
         Ok(NoErrors, DataArray(MAX_LIST_ITEMS_THRESHOLD + 1)),
         Ok(NoErrors, DataNull),
         Ok(NoErrors, DataObject(<<"id">>)),
         Ok(E("Unknown field"), DataNull),
         Ok(E("Pagination required"), DataNull),
         Ok(E("Rate limit hit"), DataArray(MAX_LIST_ITEMS_THRESHOLD + 1)),
         Ok(E("Complexity too high"), DataArray(MAX_LIST_ITEMS_THRESHOLD + 1)),
         Ok(ErrorsArray(<<EntryNoMessage>>), DataArray(MAX_LIST_ITEMS_THRESHOLD + 1)),
         Ok(ErrorsArray(<<Entry("limit"), EntryNull>>), DataArray(MAX_LIST_ITEMS_THRESHOLD + 1)),
         Ok(ErrorsOther, DataArray(MAX_LIST_ITEMS_THRESHOLD + 1)),
         Http(400, "Bad Request", Some("ERR_BAD_REQUEST"), E("Unknown field"), None,
              DataArray(MAX_LIST_ITEMS_THRESHOLD + 1)) }

NominalBola == {Ok(NoErrors, DataNull)}

BolaResponses ==
  ProbeErrors
  \cup NominalBola
  \cup {
         Ok(NoErrors, DataObject(<<"id", "total">>)),
         Ok(NoErrors, DataObject(<<"__typename">>)),
         Ok(NoErrors, DataObject(<<>>)),
         Ok(NoErrors, DataArray(0)),
         Ok(NoErrors, DataArray(2)),
         Ok(NoErrors, DataScalar),
         Ok(E("FORBIDDEN"), DataNull),
         Ok(E("Unauthorized"), DataObject(<<"id">>)),
         Ok(E("Access Denied"), DataNull),
         Ok(E("Order not found"), DataNull),
         Ok(E("Order not found"), DataObject(<<"id">>)),
         Ok(E("Unknown field"), DataNull),
         Ok(E("Rate limit hit"), DataObject(<<"id">>)),
         Ok(ErrorsArray(<<EntryNoMessage>>), DataObject(<<"id">>)) }

\* ------------------------------------------------------------------ state

VARIABLES
  target,               \* runScan's argument
  pc,                   \* where runScan is suspended: the await it waits on
  findings,             \* findings
  schema,               \* schema: None (null), or the index of the parsed schema
  scanStatus,           \* scanStatus
  scanError,            \* scanError: None (undefined) or Some(text)
  requests,             \* the requests issued so far, in order
  resp,                 \* response or error of the request that settled, while in scope
  listIdx,              \* position of the list loop in listFields
  bolaIdx,              \* position of the BOLA loops in their iteration order
  testedVictimObjects,  \* testedVictimObjects
  offNominal,           \* probes answered otherwise than nominally so far
  fnSchema,             \* the schema an analyser is applied to
  fnCall,               \* the analyser applied and what it returned
  scans,                \* the runScan invocations in progress side by side
  jobs,                 \* the jobs of scanQueue, by job id
  rows,                 \* the rows of scan_results, in the order of their INSERT
  pending,              \* the job ids POST /scans has queued and not yet written
  reply,                \* what the last request to the API was answered
  cli                   \* the command line run: its config, position and exit code

scanVars ==
  <<target, pc, findings, schema, scanStatus, scanError, requests, resp, listIdx,
    bolaIdx, testedVictimObjects, offNominal>>
pureVars == <<fnSchema, fnCall>>
jobVars == <<jobs, rows, pending, reply>>
cliVars == <<cli>>
restVars == <<scans, jobVars, cliVars>>
vars == <<scanVars, pureVars, restVars>>

\* nothing but the scan or the analyser at hand is running
NoReply == [status |-> 0, body |-> None]
JobsIdle == jobs = <<>> /\ rows = <<>> /\ pending = {} /\ reply = NoReply
CliIdle == cli = [file |-> None, server |-> None, pc |-> "none", exitCode |-> None,
                  findings |-> <<>>]
RestIdle == scans = <<>> /\ JobsIdle /\ CliIdle

NoCall ==
  [fn |-> "none", depth |-> 0, targetObjectTypes |-> None, fieldName |-> "",
   out |-> <<>>]

Request(phase, authorization, query, probe) ==
  [phase |-> phase, authorization |-> authorization, query |-> query, probe |-> probe]

\* const initialContext = target.userContexts?.[0]; buildHeaders(initialContext?.authToken)
initialHeaders ==
  buildHeaders(IF Len(target.userContexts) > 0
               THEN Some(target.userContexts[1].authToken) ELSE None)

listFields == findListFields(SchemaOf(schema))

bolaPoints ==
  IF IsSome(schema)
  THEN findBolaPointsOfInterest(ScanSchemas[Val(schema)], target.targetObjectTypes)
  ELSE <<>>

bolaPlan == BolaPlan(target.userContexts, bolaPoints)

\* the ScanResult runScan returns (index.ts 305-322)
result == [status |-> scanStatus, findings |-> findings, error |-> scanError]

ScanIdle ==
  /\ pc = "idle"
  /\ findings = <<>>
  /\ schema = None
  /\ scanStatus = "Queued"
  /\ scanError = None
  /\ requests = <<>>
  /\ resp = None
  /\ listIdx = 0
  /\ bolaIdx = 0
  /\ testedVictimObjects = {}
  /\ offNominal = 0

Init ==
  /\ target \in Targets
  /\ ScanIdle
  /\ fnSchema = None
  /\ fnCall = NoCall
  /\ RestIdle

\* the server answers r, one of its nominal answers or within the bound
Answers(r, nominal) ==
  /\ r \in nominal \/ offNominal < MaxOffNominal
  /\ offNominal' = IF r \in nominal THEN offNominal ELSE offNominal + 1
  /\ resp' = Some(r)

\* the catch block of runScan, then the return
Fail(error, fs) ==
  LET caught == runScanCatch(error, fs)
  IN /\ scanStatus' = caught.scanStatus
     /\ scanError' = caught.scanError
     /\ findings' = caught.findings
     /\ pc' = IF IsSome(caught.thrown) THEN "threw" ELSE "returned"

\* runScan from its call to the connectivity request
RunScan ==
  /\ pc = "idle"
  /\ pc' = "connectivity"
  /\ scanStatus' = "Running"
  /\ requests' = Append(requests,
                        Request("connectivity", initialHeaders, "{ __typename }", NoProbe))
  /\ UNCHANGED <<target, findings, schema, scanError, resp, listIdx, bolaIdx,
                 testedVictimObjects, offNominal, pureVars, restVars>>

\* the connectivity request settles; on success getSchema issues introspection
ConnectivitySettled ==
  /\ pc = "connectivity"
  /\ \E r \in ConnectivityResponses :
       /\ resp' = Some(r)
       /\ UNCHANGED offNominal
       /\ IF r.kind = "ok"
          THEN /\ pc' = "introspection"
               /\ requests' = Append(requests,
                    Request("introspection", initialHeaders, "IntrospectionQuery", NoProbe))
               /\ UNCHANGED <<findings, scanStatus, scanError>>
          ELSE /\ Fail(connectivityError(target.url, r), findings)
               /\ UNCHANGED requests
  /\ UNCHANGED <<target, schema, listIdx, bolaIdx, testedVictimObjects, pureVars, restVars>>

\* the introspection request settles; runDosChecks issues the depth request
IntrospectionSettled ==
  /\ pc = "introspection"
  /\ \E r \in IntrospectionResponses :
       LET got == getSchema(r, findings)
       IN /\ Answers(r, NominalIntrospection)
          /\ IF IsSome(got.thrown)
             THEN /\ Fail(Val(got.thrown), got.findings)
                  /\ UNCHANGED <<schema, requests>>
             ELSE /\ schema' = got.schema
                  /\ findings' = got.findings
                  /\ pc' = "depth"
                  /\ requests' = Append(requests,
                       Request("depth", initialHeaders,
                               generateDeepQuery(DEFAULT_DEPTH_LIMIT, SchemaOf(got.schema)),
                               NoProbe))
                  /\ UNCHANGED <<scanStatus, scanError>>
  /\ UNCHANGED <<target, listIdx, bolaIdx, testedVictimObjects, pureVars, restVars>>

\* the depth request settles; runDosChecks waits DOS_INTER_REQUEST_DELAY
DepthSettled ==
  /\ pc = "depth"
  /\ \E r \in DepthResponses :
       LET done == depthCheck(r, findings)
       IN /\ Answers(r, NominalDepth)
          /\ IF IsSome(done.thrown)
             THEN Fail(Val(done.thrown), done.findings)
             ELSE /\ findings' = done.findings
                  /\ pc' = "depthDelay"
                  /\ UNCHANGED <<scanStatus, scanError>>
  /\ UNCHANGED <<target, schema, requests, listIdx, bolaIdx, testedVictimObjects,
                 pureVars, restVars>>

ListRequest(i) ==
  Request("list", initialHeaders, listFields[i], NoProbe)

BolaRequest(e) ==
  Request("bola", buildHeaders(Some(e.attacker.authToken)), e.point.fieldName, probeOf(e))

\* the BOLA loops from iteration i on: the next request, or the end of the scan
BolaLoop(i, fs) ==
  LET j == NextProbe(bolaPlan, i, testedVictimObjects)
  IN IF j = 0
     THEN /\ pc' = "returned"
          /\ scanStatus' = "Completed"
          /\ findings' = fs
          /\ UNCHANGED <<requests, bolaIdx, testedVictimObjects>>
     ELSE /\ pc' = "bola"
          /\ bolaIdx' = j
          /\ testedVictimObjects' = testedVictimObjects \cup {testKey(bolaPlan[j])}
          /\ requests' = Append(requests, BolaRequest(bolaPlan[j]))
          /\ findings' = fs
          /\ UNCHANGED scanStatus

\* runBolaChecks from its call to its first request, or to the end of the scan
RunBolaChecks ==
  LET start == runBolaChecksStart(target.userContexts, target.targetObjectTypes,
                                  schema, bolaPoints, findings)
  IN IF start.skip
     THEN /\ pc' = "returned"
          /\ scanStatus' = "Completed"
          /\ findings' = start.findings
          /\ UNCHANGED <<requests, bolaIdx, testedVictimObjects>>
     ELSE BolaLoop(1, start.findings)

\* the delay after the depth check elapses; the list loop issues its first request
DepthDelayElapsed ==
  /\ pc = "depthDelay"
  /\ IF Len(listFields) > 0
     THEN /\ pc' = "list"
          /\ listIdx' = 1
          /\ requests' = Append(requests, ListRequest(1))
          /\ UNCHANGED <<findings, scanStatus, bolaIdx, testedVictimObjects>>
     ELSE /\ RunBolaChecks
          /\ UNCHANGED listIdx
  /\ resp' = None
  /\ UNCHANGED <<target, schema, scanError, offNominal, pureVars, restVars>>

\* a list request settles; the loop waits DOS_INTER_REQUEST_DELAY
ListSettled ==
  /\ pc = "list"
  /\ \E r \in ListResponses :
       LET done == listCheck(r, listFields[listIdx], findings)
       IN /\ Answers(r, NominalList)
          /\ IF IsSome(done.thrown)
             THEN Fail(Val(done.thrown), done.findings)
             ELSE /\ findings' = done.findings
                  /\ pc' = "listDelay"
                  /\ UNCHANGED <<scanStatus, scanError>>
  /\ UNCHANGED <<target, schema, requests, listIdx, bolaIdx, testedVictimObjects,
                 pureVars, restVars>>

\* the delay after a list request elapses: the next list request, or runBolaChecks
ListDelayElapsed ==
  /\ pc = "listDelay"
  /\ IF listIdx < Len(listFields)
     THEN /\ pc' = "list"
          /\ listIdx' = listIdx + 1
          /\ requests' = Append(requests, ListRequest(listIdx + 1))
          /\ UNCHANGED <<findings, scanStatus, bolaIdx, testedVictimObjects>>
     ELSE /\ RunBolaChecks
          /\ UNCHANGED listIdx
  /\ resp' = None
  /\ UNCHANGED <<target, schema, scanError, offNominal, pureVars, restVars>>

\* a BOLA request settles; the loop waits only after a request that resolved
BolaSettledDelayInTry ==
  /\ pc = "bola"
  /\ \E r \in BolaResponses :
       LET done == bolaCheck(r, bolaPlan[bolaIdx], findings)
       IN /\ Answers(r, NominalBola)
          /\ IF IsSome(done.thrown)
             THEN /\ Fail(Val(done.thrown), done.findings)
                  /\ UNCHANGED <<requests, bolaIdx, testedVictimObjects>>
             ELSE IF r.kind = "ok"
             THEN /\ findings' = done.findings
                  /\ pc' = "bolaDelay"
                  /\ UNCHANGED <<scanStatus, scanError, requests, bolaIdx,
                                 testedVictimObjects>>
             ELSE /\ BolaLoop(bolaIdx + 1, done.findings)
                  /\ UNCHANGED scanError
  /\ UNCHANGED <<target, schema, listIdx, pureVars, restVars>>

\* a BOLA request settles; the loop waits BOLA_INTER_REQUEST_DELAY
BolaSettled ==
  /\ pc = "bola"
  /\ \E r \in BolaResponses :
       LET done == bolaCheck(r, bolaPlan[bolaIdx], findings)
       IN /\ Answers(r, NominalBola)
          /\ IF IsSome(done.thrown)
             THEN Fail(Val(done.thrown), done.findings)
             ELSE /\ findings' = done.findings
                  /\ pc' = "bolaDelay"
                  /\ UNCHANGED <<scanStatus, scanError>>
  /\ UNCHANGED <<target, schema, requests, listIdx, bolaIdx, testedVictimObjects,
                 pureVars, restVars>>

\* the delay after a BOLA request elapses: the loops go on
BolaDelayElapsed ==
  /\ pc = "bolaDelay"
  /\ BolaLoop(bolaIdx + 1, findings)
  /\ resp' = None
  /\ UNCHANGED <<target, schema, scanError, listIdx, offNominal, pureVars, restVars>>

Next ==
  \/ RunScan
  \/ ConnectivitySettled
  \/ IntrospectionSettled
  \/ DepthSettled
  \/ DepthDelayElapsed
  \/ ListSettled
  \/ ListDelayElapsed
  \/ BolaSettled
  \/ BolaDelayElapsed

Spec == Init /\ [][Next]_vars

\* the positions of runScan: before the call, at an await, after the return
Positions ==
  {"idle", "connectivity", "introspection", "depth", "depthDelay", "list",
   "listDelay", "bola", "bolaDelay", "returned", "threw"}

\* runScan resumes from the await it is suspended at
Resumed(at) == pc = at /\ pc' \in Positions \ {at}

\* every awaited axios.post resolves or rejects
RequestsSettle ==
  \A at \in {"connectivity", "introspection", "depth", "list", "bola"} :
    WF_pc(Resumed(at))

\* every awaited delay elapses
DelaysElapse ==
  \A at \in {"depthDelay", "listDelay", "bolaDelay"} : WF_pc(Resumed(at))

SpecLive == Init /\ [][Next]_vars /\ RequestsSettle /\ DelaysElapse

\* ------------------------------------------- the analysers on their own

PureInit ==
  /\ target \in {ScanTarget(<<>>, None)}
  /\ ScanIdle
  /\ fnSchema \in {None} \cup {Some(s) : s \in SchemaPool}
  /\ fnCall = NoCall
  /\ RestIdle

CallFindListFields ==
  /\ fnCall.fn = "none"
  /\ fnCall' = [fn |-> "findListFields", depth |-> 0, targetObjectTypes |-> None,
                fieldName |-> "",
                out |-> findListFields(fnSchema)]
  /\ UNCHANGED <<fnSchema, scanVars, restVars>>

CallGenerateDeepQuery ==
  /\ fnCall.fn = "none"
  /\ \E d \in 1..MaxDepth :
       fnCall' = [fn |-> "generateDeepQuery", depth |-> d, targetObjectTypes |-> None,
                  fieldName |-> "",
                  out |-> generateDeepQuery(d, fnSchema)]
  /\ UNCHANGED <<fnSchema, scanVars, restVars>>

CallFindBolaPointsOfInterest ==
  /\ fnCall.fn = "none"
  /\ IsSome(fnSchema)
  /\ \E t \in TargetTypeChoices :
       fnCall' = [fn |-> "findBolaPointsOfInterest", depth |-> 0, targetObjectTypes |-> t,
                  fieldName |-> "",
                  out |-> findBolaPointsOfInterest(Val(fnSchema), t)]
  /\ UNCHANGED <<fnSchema, scanVars, restVars>>

\* field names inferObjectTypeFromFieldName is applied to
FieldNamePool ==
  {"User", "users", "getOrderById", "order", "ordersConnection", "userEdge",
   "findItems", "allPosts", "s", "get", "status", "address", "getlists", "listAllUsers"}

CallInferObjectTypeFromFieldName ==
  /\ fnCall.fn = "none"
  /\ \E n \in FieldNamePool :
       fnCall' = [fn |-> "inferObjectTypeFromFieldName", depth |-> 0,
                  targetObjectTypes |-> None, fieldName |-> n,
                  out |-> inferObjectTypeFromFieldName(n)]
  /\ UNCHANGED <<fnSchema, scanVars, restVars>>

\* the user contexts the loops of runBolaChecks are applied to on their own
ContextPool ==
  { <<UserContext("a", "ta", Owns("Order", <<"o1">>) @@ Owns("User", <<"u1">>)),
      UserContext("b", "tb", Owns("Order", <<"o1", "o2">>))>>,
    <<UserContext("a-1", "ta", Owns("Order", <<"o-1">>)),
      UserContext("b-2", "tb", Owns("Order", <<"o-2", "o-1">>))>>,
    <<UserContext("a", "ta", OwnsNothing),
      UserContext("a-query-order-x", "tx", OwnsNothing),
      UserContext("v", "tv", Owns("Order", <<"x-query-order-y", "y">>))>> }

\* the plan entries the loops of runBolaChecks issue a request for, from
\* iteration i on, when no request makes the function throw
RECURSIVE probedFrom(_, _, _)
probedFrom(plan, i, tested) ==
  LET j == NextProbe(plan, i, tested)
  IN IF j = 0 THEN <<>>
     ELSE <<j>> \o probedFrom(plan, j + 1, tested \cup {testKey(plan[j])})

CallRunBolaChecksLoops ==
  /\ fnCall.fn = "none"
  /\ IsSome(fnSchema)
  /\ \E uc \in ContextPool :
       LET plan == BolaPlan(uc, findBolaPointsOfInterest(Val(fnSchema), None))
       IN fnCall' = [fn |-> "runBolaChecks", depth |-> 0, targetObjectTypes |-> None,
                     fieldName |-> "", userContexts |-> uc, plan |-> plan,
                     out |-> probedFrom(plan, 1, {})]
  /\ UNCHANGED <<fnSchema, scanVars, restVars>>

PureNext ==
  \/ CallRunBolaChecksLoops
  \/ CallInferObjectTypeFromFieldName
  \/ CallFindListFields
  \/ CallGenerateDeepQuery
  \/ CallFindBolaPointsOfInterest

SpecPure == PureInit /\ [][PureNext]_vars

\* ---------------------------------------- runScan invocations side by side

\* a server that answers every request by the request alone
Server(kind, schemaIdx) == [kind |-> kind, schema |-> schemaIdx]

Servers ==
  {Server("down", 1), Server("broken", 1), Server("sound", 1), Server("open", 1),
   Server("open", 2)}

\* what the server answers to a request
Respond(server, request) ==
  LET open == server.kind = "open"
  IN CASE request.phase = "connectivity" ->
            IF server.kind = "down" THEN Refused
            ELSE IF server.kind = "broken" THEN H(500, ErrorsArray(<<EntryNull>>))
            ELSE Ok(NoErrors, DataObject(<<"__typename">>))
       [] request.phase = "introspection" -> Ok(NoErrors, DataSchema(server.schema))
       [] request.phase = "depth" ->
            IF open THEN Ok(NoErrors, DataObject(<<"node">>))
            ELSE H(400, E("Max DEPTH of 5 exceeded"))
       [] request.phase = "list" ->
            IF open THEN Ok(NoErrors, DataArray(MAX_LIST_ITEMS_THRESHOLD + 1))
            ELSE Ok(E("Pagination required"), DataNull)
       [] OTHER ->
            IF ~IsSome(request.authorization) THEN H(401, NoErrors)
            ELSE IF open THEN Ok(NoErrors, DataObject(<<"id", "total">>))
            ELSE Ok(E("FORBIDDEN"), DataNull)

\* the locals of one runScan invocation before its first step
Invocation(t, server) ==
  [target |-> t, server |-> server, pc |-> "idle", findings |-> <<>>, schema |-> None,
   scanStatus |-> "Queued", scanError |-> None, requests |-> <<>>, listIdx |-> 0,
   bolaIdx |-> 0, testedVictimObjects |-> {}]

\* a testedVictimObjects that every invocation shares
testedVictimObjectsShared(all, s) ==
  UNION {all[i].testedVictimObjects : i \in DOMAIN all}

\* const testedVictimObjects = new Set<string>(): the keys invocation s sees
testedVictimObjectsOf(all, s) == all[s].testedVictimObjects

headersOf(userContexts) ==
  buildHeaders(IF Len(userContexts) > 0 THEN Some(userContexts[1].authToken) ELSE None)

bolaPointsOf(st) ==
  IF IsSome(st.schema)
  THEN findBolaPointsOfInterest(ScanSchemas[Val(st.schema)], st.target.targetObjectTypes)
  ELSE <<>>

issue(st, at, phase, query) ==
  [st EXCEPT !.pc = at,
             !.requests = Append(@, Request(phase, headersOf(st.target.userContexts),
                                            query, NoProbe))]

\* the catch block of runScan, then the return
failed(st, caught) ==
  [st EXCEPT !.scanStatus = caught.scanStatus, !.scanError = caught.scanError,
             !.findings = caught.findings,
             !.pc = IF IsSome(caught.thrown) THEN "threw" ELSE "returned"]

completed(st, fs) ==
  [st EXCEPT !.pc = "returned", !.scanStatus = "Completed", !.findings = fs]

\* the BOLA loops at entry j of their iteration order, or past their end
probe(st, plan, j, fs) ==
  IF j = 0 THEN completed(st, fs)
  ELSE [st EXCEPT !.pc = "bola", !.bolaIdx = j, !.findings = fs,
                  !.testedVictimObjects = @ \cup {testKey(plan[j])},
                  !.requests = Append(@, BolaRequest(plan[j]))]

\* one invocation of runScan from its call or a delay to the next request or to
\* its end, tested being the keys of testedVictimObjects it sees
resume(st, tested) ==
  LET i == IF st.pc = "depthDelay" THEN 1 ELSE st.listIdx + 1
      fields == findListFields(SchemaOf(st.schema))
      points == bolaPointsOf(st)
      start == IF st.pc = "bolaDelay" THEN [skip |-> FALSE, findings |-> st.findings]
               ELSE runBolaChecksStart(st.target.userContexts, st.target.targetObjectTypes,
                                       st.schema, points, st.findings)
      from == IF st.pc = "bolaDelay" THEN st.bolaIdx + 1 ELSE 1
  IN IF st.pc = "idle"
     THEN [issue(st, "connectivity", "connectivity", "{ __typename }")
             EXCEPT !.scanStatus = "Running"]
     ELSE IF st.pc \in {"depthDelay", "listDelay"} /\ i <= Len(fields)
     THEN [issue(st, "list", "list", fields[i]) EXCEPT !.listIdx = i]
     ELSE IF start.skip THEN completed(st, start.findings)
     ELSE probe(st, BolaPlan(st.target.userContexts, points),
                NextProbe(BolaPlan(st.target.userContexts, points), from, tested),
                start.findings)

\* what the code after the awaited request does with its answer r
handled(st, r) ==
  CASE st.pc = "connectivity" ->
         [thrown |-> IF r.kind = "ok" THEN None
                     ELSE Some(connectivityError(st.target.url, r)),
          findings |-> st.findings]
    [] st.pc = "introspection" -> getSchema(r, st.findings)
    [] st.pc = "depth" -> depthCheck(r, st.findings)
    [] st.pc = "list" ->
         listCheck(r, findListFields(SchemaOf(st.schema))[st.listIdx], st.findings)
    [] OTHER ->
         bolaCheck(r, BolaPlan(st.target.userContexts, bolaPointsOf(st))[st.bolaIdx],
                   st.findings)

\* one invocation of runScan from the request it awaits, answered by its
\* server, to the next request or delay or to its end
settle(st, done) ==
  IF IsSome(done.thrown) THEN failed(st, runScanCatch(Val(done.thrown), done.findings))
  ELSE CASE st.pc = "connectivity" ->
              issue(st, "introspection", "introspection", "IntrospectionQuery")
         [] st.pc = "introspection" ->
              [issue(st, "depth", "depth",
                     generateDeepQuery(DEFAULT_DEPTH_LIMIT, SchemaOf(done.schema)))
                 EXCEPT !.schema = done.schema, !.findings = done.findings]
         [] st.pc = "depth" -> [st EXCEPT !.findings = done.findings, !.pc = "depthDelay"]
         [] st.pc = "list" -> [st EXCEPT !.findings = done.findings, !.pc = "listDelay"]
         [] OTHER -> [st EXCEPT !.findings = done.findings, !.pc = "bolaDelay"]

Settled(st) == st.pc \in {"returned", "threw"}
Awaiting(st) == st.pc \in {"connectivity", "introspection", "depth", "list", "bola"}

ConcurrentInit ==
  /\ target \in {ScanTarget(<<>>, None)}
  /\ ScanIdle
  /\ fnSchema = None
  /\ fnCall = NoCall
  /\ scans \in {<<Invocation(t1, s1), Invocation(t2, s2)>> :
                  t1 \in Targets, s1 \in Servers, t2 \in Targets, s2 \in Servers}
  /\ JobsIdle
  /\ CliIdle

\* an invocation is called, or the delay it waits on elapses
Resumes ==
  \E s \in DOMAIN scans :
    /\ ~Settled(scans[s])
    /\ ~Awaiting(scans[s])
    /\ scans' = [scans EXCEPT ![s] = resume(scans[s], testedVictimObjectsOf(scans, s))]
    /\ UNCHANGED <<scanVars, pureVars, jobVars, cliVars>>

\* the request an invocation waits on settles
Settles ==
  \E s \in DOMAIN scans :
    /\ Awaiting(scans[s])
    /\ scans' = [scans EXCEPT ![s] =
                   settle(scans[s],
                          handled(scans[s], Respond(scans[s].server,
                                                    scans[s].requests[Len(scans[s].requests)])))]
    /\ UNCHANGED <<scanVars, pureVars, jobVars, cliVars>>

ConcurrentNext ==
  \/ Resumes
  \/ Settles

SpecConcurrent == ConcurrentInit /\ [][ConcurrentNext]_vars

\* ------------------------------------------------------------ job runner

\* await runScan(target): the invocation from its call to its end
RECURSIVE RunToEnd(_)
RunToEnd(st) ==
  IF Settled(st) THEN st
  ELSE IF Awaiting(st)
  THEN RunToEnd(settle(st, handled(st, Respond(st.server, st.requests[Len(st.requests)]))))
  ELSE RunToEnd(resume(st, testedVictimObjectsOf(<<st>>, 1)))

MaxJobs == 2

\* the scans the jobs are about: a target, and the server behind its url
JobScans ==
  {c \in Targets \X Servers :
     /\ Len(c[1].userContexts) >= 2
     /\ c[2] \in {Server("down", 1), Server("broken", 1), Server("open", 1)}}

\* job.id: the queue numbers its jobs from 1 on
JobId(n) == NumStr(n)

\* crypto.randomUUID() of the n-th scan
randomUUID(n) == "uuid-" \o NumStr(n)

\* JSON.stringify(result.findings) and the JSON.parse of GET /scans/:jobId
stringify(fs) == [json |-> fs]
parse(text) == text.json

Row(id, target_url, status, fs, completed_at) ==
  [id |-> id, target_url |-> target_url, status |-> status, findings |-> fs,
   completed_at |-> completed_at]

Send(status, body) == [status |-> status, body |-> body]

JobsInit ==
  /\ target \in {ScanTarget(<<>>, None)}
  /\ ScanIdle
  /\ fnSchema = None
  /\ fnCall = NoCall
  /\ RestIdle

\* POST /scans with a body that has no url
PostScansRejected ==
  /\ reply' = Send(400, Some("Target URL es requerido"))
  /\ UNCHANGED <<jobs, rows, pending, scanVars, pureVars, scans, cliVars>>

\* POST /scans up to the job added to the queue
PostScansAdd ==
  /\ Len(jobs) < MaxJobs
  /\ \E c \in JobScans :
       jobs' = Append(jobs, [target |-> c[1], server |-> c[2], state |-> "waiting",
                             result |-> None])
  /\ pending' = pending \cup {JobId(Len(jobs) + 1)}
  /\ UNCHANGED <<rows, reply, scanVars, pureVars, scans, cliVars>>

\* POST /scans from the job added on: the row with status 'Queued', the answer
PostScansInsert ==
  \E id \in pending :
    /\ rows' = Append(rows, Row(id, url, "Queued", None, None))
    /\ pending' = pending \ {id}
    /\ reply' = Send(202, Some(id))
    /\ UNCHANGED <<jobs, scanVars, pureVars, scans, cliVars>>

\* the worker takes a job and calls runScan
WorkerStarts ==
  \E j \in DOMAIN jobs :
    /\ jobs[j].state = "waiting"
    /\ jobs' = [jobs EXCEPT ![j].state = "active"]
    /\ UNCHANGED <<rows, pending, reply, scanVars, pureVars, scans, cliVars>>

\* the ScanResult of the scan of job j that ended
scanResultOf(j, ended) ==
  [scanId |-> randomUUID(j), status |-> ended.scanStatus, findings |-> ended.findings,
   error |-> ended.scanError, completedAt |-> "endTime"]

\* the worker once runScan has settled: it stores the result and returns it,
\* or rethrows
Processed(j, threw, scanResult) ==
  IF threw
  THEN /\ jobs' = [jobs EXCEPT ![j].state = "failed"]
       /\ UNCHANGED rows
  ELSE /\ rows' = Append(rows,
             Row(scanResult.scanId, jobs[j].target.url, scanResult.status,
                 Some(stringify(scanResult.findings)), Some(scanResult.completedAt)))
       /\ jobs' = [jobs EXCEPT ![j].state = "completed", ![j].result = Some(scanResult)]

\* the worker waits for runScan
Scanned(j, ended) == Processed(j, ended.pc = "threw", scanResultOf(j, ended))

\* runScan settles: the worker stores the result and returns it, or rethrows
WorkerFinishes ==
  \E j \in DOMAIN jobs :
    /\ jobs[j].state = "active"
    /\ Scanned(j, RunToEnd(Invocation(jobs[j].target, jobs[j].server)))
    /\ UNCHANGED <<pending, reply, scanVars, pureVars, scans, cliVars>>

\* SELECT * FROM scan_results WHERE id = $1
SelectById(id) == SelectSeq(rows, LAMBDA row : row.id = id)

\* GET /scans/:jobId
GetScan ==
  /\ \E jobId \in {JobId(n) : n \in 0..MaxJobs} :
       LET found == SelectById(jobId)
       IN reply' =
            IF Len(found) > 0
            THEN Send(200, Some(IF IsSome(found[1].findings)
                                THEN [found[1] EXCEPT !.findings = Some(parse(Val(@)))]
                                ELSE found[1]))
            ELSE Send(404, None)
  /\ UNCHANGED <<jobs, rows, pending, scanVars, pureVars, scans, cliVars>>

JobsNext ==
  \/ PostScansRejected
  \/ PostScansAdd
  \/ PostScansInsert
  \/ WorkerStarts
  \/ WorkerFinishes
  \/ GetScan

SpecJobs == JobsInit /\ [][JobsNext]_vars

\* ---------------------------------------------------------- command line

\* the file options.config names: not there, not JSON, or the value it parses to
MissingFile == [kind |-> "missing"]
Unparseable == [kind |-> "unparseable"]
JsonNull == [kind |-> "null"]
JsonObject(configUrl, userContexts, targetObjectTypes) ==
  [kind |-> "object", url |-> configUrl, userContexts |-> userContexts,
   targetObjectTypes |-> targetObjectTypes]

\* the userContexts member of the config: absent, not an array, or an array
Absent == [tag |-> "absent"]
NotArray == [tag |-> "other"]
Array(items) == [tag |-> "array", items |-> items]

ConfigFiles ==
  {MissingFile, Unparseable, JsonNull}
  \cup {JsonObject(u, c, None) :
          u \in {None, Some(""), Some(url)}, c \in {Absent, NotArray, Array(<<>>)}}
  \cup {JsonObject(u, Array(t.userContexts), t.targetObjectTypes) :
          u \in {None, Some(""), Some(url)}, t \in Targets}

\* the config load of the action throws, or the validation after it fails
setupError(file) ==
  \/ file.kind \in {"missing", "unparseable", "null"}
  \/ ~IsSome(file.url) \/ Val(file.url) = ""
  \/ file.userContexts.tag # "array"
  \/ Len(file.userContexts.items) = 0

severityOrder ==
  <<"Critical", "High", "Medium", "Low", "Info">>

\* result.findings.sort by severityOrder, highest first, equal ones in their order
sortFindings(fs) ==
  Concat([i \in 1..Len(severityOrder) |->
            SelectSeq(fs, LAMBDA f : f.severity = severityOrder[i])])

hasCriticalOrHigh(fs) ==
  \E i \in DOMAIN fs : fs[i].severity = "Critical" \/ fs[i].severity = "High"

Exit(code, fs) == [cli EXCEPT !.pc = "exited", !.exitCode = Some(code), !.findings = fs]

CliInit ==
  /\ target \in {ScanTarget(<<>>, None)}
  /\ ScanIdle
  /\ fnSchema = None
  /\ fnCall = NoCall
  /\ scans = <<>>
  /\ JobsIdle
  /\ cli \in {[file |-> Some(f), server |-> Some(server), pc |-> "start",
               exitCode |-> None, findings |-> <<>>] :
                f \in ConfigFiles, server \in Servers}

\* the action from its start to process.exit(1) or to the call of runScan; a
\* config that parses to null ends the process with an uncaught TypeError
CliAction ==
  /\ cli.pc = "start"
  /\ IF setupError(Val(cli.file))
     THEN /\ cli' = Exit(1, <<>>)
          /\ UNCHANGED scans
     ELSE /\ cli' = [cli EXCEPT !.pc = "scanning"]
          /\ scans' = <<Invocation([url |-> Val(Val(cli.file).url),
                                    userContexts |-> Val(cli.file).userContexts.items,
                                    targetObjectTypes |-> Val(cli.file).targetObjectTypes],
                                   Val(cli.server))>>
  /\ UNCHANGED <<scanVars, pureVars, jobVars>>

\* runScan settles: the findings are sorted and printed, the process exits
CliScanSettled ==
  /\ cli.pc = "scanning"
  /\ Settled(scans[1])
  /\ cli' = IF scans[1].pc = "threw" THEN Exit(1, <<>>)
            ELSE IF Len(scans[1].findings) > 0 /\ hasCriticalOrHigh(sortFindings(scans[1].findings))
            THEN Exit(1, sortFindings(scans[1].findings))
            ELSE Exit(0, sortFindings(scans[1].findings))
  /\ UNCHANGED <<scans, scanVars, pureVars, jobVars>>

CliNext ==
  \/ CliAction
  \/ Resumes
  \/ Settles
  \/ CliScanSettled

SpecCli == CliInit /\ [][CliNext]_vars

\* ------------------------------------------------------------- properties

\* the connectivity check is what failed: its request is the last one issued
\* and it settled with an error
ConnectivityFailed ==
  /\ Len(requests) > 0
  /\ requests[Len(requests)].phase = "connectivity"
  /\ IsSome(resp)
  /\ Val(resp).kind # "ok"

\* a body whose errors member is not an array of objects with a message
MalformedBody(r) ==
  \/ r.errors.tag = "other"
  \/ \E i \in 1..Len(r.errors.items) :
       r.errors.items[i].isNull \/ ~IsSome(r.errors.items[i].message)

HasFinding(fs, severity, description) ==
  \E i \in 1..Len(fs) : fs[i].severity = severity /\ fs[i].description = description

\* C1: whatever the server does at each request (success, HTTP error, network
\* error, timeout, malformed body), runScan returns a ScanResult without
\* throwing, and the status it returns is Completed or Failed.
C1_ReturnsCompletedOrFailed ==
  /\ pc # "threw"
  /\ pc = "returned" => result.status \in {"Completed", "Failed"}

\* a scan that returned Failed after a malformed body
C1_Witness ==
  /\ pc = "returned"
  /\ result.status = "Failed"
  /\ IsSome(resp)
  /\ MalformedBody(Val(resp))

\* C2: whenever the connectivity POST fails, the result has status Failed, no
\* findings, an error that begins with "No se pudo conectar a ", and no
\* further request was issued.
C2_AsStated ==
  (pc \in {"returned", "threw"} /\ ConnectivityFailed) =>
    /\ pc = "returned"
    /\ result.status = "Failed"
    /\ result.findings = <<>>
    /\ IsSome(result.error)
    /\ startsWith(Val(result.error), "No se pudo conectar a ")
    /\ Len(requests) = 1

\* C3: a result with status Failed has a non-empty error and, unless the
\* connectivity check is what failed, a Critical finding 'Error Fatal Durante
\* el Escaneo', whatever exception escaped schema fetch or the probers.
C3_FailedHasErrorAndFatalFinding ==
  (pc = "returned" /\ result.status = "Failed") =>
    /\ IsSome(result.error)
    /\ Val(result.error) # ""
    /\ \/ ConnectivityFailed
       \/ HasFinding(result.findings, "Critical", "Error Fatal Durante el Escaneo")

\* a scan that failed on an exception escaping the BOLA prober
C3_Witness ==
  /\ pc = "returned"
  /\ result.status = "Failed"
  /\ requests[Len(requests)].phase = "bola"
  /\ HasFinding(result.findings, "Critical", "Error Fatal Durante el Escaneo")

\* some GraphQL error message of r, lower-cased, satisfies P
GraphQLMessage(r, P(_)) ==
  /\ r.errors.tag = "array"
  /\ \E i \in 1..Len(r.errors.items) :
       /\ IsSome(r.errors.items[i].message)
       /\ P(toLowerCase(Val(r.errors.items[i].message)))

LimitEnforced(r) ==
  GraphQLMessage(r, LAMBDA m : \/ includes(m, "limit")
                               \/ includes(m, "complexity")
                               \/ includes(m, "depth")
                               \/ includes(m, "pagination"))

AuthDenied(r) ==
  \/ GraphQLMessage(r, LAMBDA m : \/ includes(m, "unauthorized")
                                  \/ includes(m, "forbidden")
                                  \/ includes(m, "access denied")
                                  \/ (includes(m, "not found") /\ r.data.tag = "null"))
  \/ (r.kind = "http" /\ r.status \in {401, 403})

\* C4: a depth, list or BOLA probe whose outcome is LimitEnforced or
\* AuthDenied appends no finding, whether the outcome arrives as a 2xx body
\* or as an HTTP error response.
C4_AsStated ==
  [][ ( /\ pc \in {"depth", "list", "bola"}
        /\ IsSome(resp')
        /\ (LimitEnforced(Val(resp')) \/ AuthDenied(Val(resp'))) )
      => findings' = findings ]_vars

\* C5: every 'BOLA Detectado' finding is Critical if the probed point's
\* operation is mutation, and High otherwise.
C5_BolaSeverityByOperation ==
  \A i \in 1..Len(findings) :
    findings[i].description = "BOLA Detectado" =>
      findings[i].severity =
        (IF findings[i].probe.operation = "mutation" THEN "Critical" ELSE "High")

\* a Critical BOLA finding on a mutation beside the requests of queries
C5_Witness ==
  /\ \E i \in 1..Len(findings) :
       /\ findings[i].description = "BOLA Detectado"
       /\ findings[i].probe.operation = "mutation"
       /\ findings[i].severity = "Critical"
  /\ \E k \in 1..Len(requests) :
       requests[k].phase = "bola" /\ requests[k].probe.operation = "query"

\* the step appends a High 'Potencial DoS por Falta de Paginación' finding
PaginationFindingAppended ==
  /\ Len(findings') = Len(findings) + 1
  /\ findings'[Len(findings')].severity = "High"
  /\ findings'[Len(findings')].description = "Potencial DoS por Falta de Paginación"

LongArray(r) == r.data.tag = "array" /\ r.data.len > 100

\* C6: a list probe appends a High 'Potencial DoS por Falta de Paginación'
\* finding if and only if the response's data for the field is an array of
\* more than 100 items.
C6_AsStated ==
  [][ (pc = "list" /\ IsSome(resp')) =>
        (PaginationFindingAppended <=> LongArray(Val(resp'))) ]_vars

\* every entry of the errors of r has a message, and none mentions
\* pagination or limit
ErrorsLetThrough(r) ==
  \/ r.errors.tag = "absent"
  \/ /\ r.errors.tag = "array"
     /\ \A i \in 1..Len(r.errors.items) :
          /\ IsSome(r.errors.items[i].message)
          /\ ~includes(toLowerCase(Val(r.errors.items[i].message)), "pagination")
          /\ ~includes(toLowerCase(Val(r.errors.items[i].message)), "limit")

\* C6, amended: a list probe appends the High finding if and only if the
\* request resolves with a 2xx response whose errors, if any, all carry a
\* message and none mentions pagination or limit, and whose data for the
\* field is an array of more than 100 items.
C6_HighFindingIffLongArrayLetThrough ==
  [][ (pc = "list" /\ IsSome(resp')) =>
        (PaginationFindingAppended
           <=> (Val(resp').kind = "ok" /\ ErrorsLetThrough(Val(resp'))
                /\ LongArray(Val(resp')))) ]_vars

\* a list probe answered with 101 items has appended the finding
C6_Witness ==
  /\ pc = "listDelay"
  /\ IsSome(resp)
  /\ Val(resp).data.tag = "array"
  /\ Val(resp).data.len = 101
  /\ findings[Len(findings)].description = "Potencial DoS por Falta de Paginación"
  /\ findings[Len(findings)].detail = "101"

ProbeTuple(p) == <<p.attacker, p.operation, p.fieldName, p.objectId>>

\* C7: within one runBolaChecks run at most one request is issued for each
\* tuple (attacker.id, operation, fieldName, objectId).
C7_OneRequestPerTuple ==
  \A i, j \in 1..Len(requests) :
    (i < j /\ requests[i].phase = "bola" /\ requests[j].phase = "bola")
      => ProbeTuple(requests[i].probe) # ProbeTuple(requests[j].probe)

\* a finished run whose iteration met one tuple for two victims, requested once
C7_Witness ==
  /\ pc = "returned"
  /\ \E a, b \in 1..Len(bolaPlan) :
       /\ a < b
       /\ ProbeTuple(probeOf(bolaPlan[a])) = ProbeTuple(probeOf(bolaPlan[b]))
       /\ bolaPlan[a].victim.id # bolaPlan[b].victim.id
       /\ \E i \in 1..Len(requests) :
            /\ requests[i].phase = "bola"
            /\ ProbeTuple(requests[i].probe) = ProbeTuple(probeOf(bolaPlan[a]))

PaginationArgNames == {"first", "last", "before", "after", "limit", "offset"}

\* f has a required argument that is not a pagination argument
RequiresOtherArg(f) ==
  \E i \in 1..Len(f.args) :
    /\ Len(f.args[i].type.wraps) > 0
    /\ f.args[i].type.wraps[1] = "NonNull"
    /\ toLowerCase(f.args[i].name) \notin PaginationArgNames

\* C8: findListFields(schema) never returns the name of a root query field
\* that has a required non-pagination argument, the fallback list included.
C8_AsStated ==
  (fnCall.fn = "findListFields" /\ IsSome(fnSchema)) =>
    LET fields == rootFields(Val(fnSchema), Val(fnSchema).queryType)
    IN \A i \in 1..Len(fnCall.out) :
         ~\E k \in 1..Len(fields) :
            fields[k].name = fnCall.out[i] /\ RequiresOtherArg(fields[k])

\* the selection sets opened in a document
RECURSIVE Opened(_)
Opened(query) ==
  IF Len(query) = 0 THEN 0
  ELSE (IF SubSeq(query, 1, 1) = "{" THEN 1 ELSE 0) + Opened(SubSeq(query, 2, Len(query)))

\* field levels below the root along the single branch of a document
FieldLevels(query) == Opened(query) - 1

\* C9: for every depth d >= 1 and every schema, generateDeepQuery(d, schema)
\* nests exactly d field levels below the root.
C9_AsStated ==
  fnCall.fn = "generateDeepQuery" => FieldLevels(fnCall.out) = fnCall.depth

IdLike(a) == a.type.name = "ID" \/ includes(toLowerCase(a.name), "id")

\* C10: every point of findBolaPointsOfInterest names a field of the root
\* type of its operation, and its idArgName is that field's first argument,
\* in declaration order, of type ID or with 'id' in its lower-cased name.
C10_PointsNameFieldAndFirstIdArg ==
  fnCall.fn = "findBolaPointsOfInterest" =>
    \A i \in 1..Len(fnCall.out) :
      LET p == fnCall.out[i]
          root == IF p.operation = "query" THEN Val(fnSchema).queryType
                  ELSE Val(fnSchema).mutationType
          fields == rootFields(Val(fnSchema), root)
      IN /\ p.operation \in {"query", "mutation"}
         /\ \E k \in 1..Len(fields) :
              /\ fields[k].name = p.fieldName
              /\ \E j \in 1..Len(fields[k].args) :
                   /\ fields[k].args[j].name = p.idArgName
                   /\ IdLike(fields[k].args[j])
                   /\ \A h \in 1..(j - 1) : ~IdLike(fields[k].args[h])

\* a point whose id argument follows one that is not and precedes another that is
C10_Witness ==
  /\ fnCall.fn = "findBolaPointsOfInterest"
  /\ \E i \in 1..Len(fnCall.out) :
       fnCall.out[i].fieldName = "order" /\ fnCall.out[i].idArgName = "orderId"

\* C11: inferObjectTypeFromFieldName applied to its own output returns that
\* output unchanged, for every field name.
C11_AsStated ==
  fnCall.fn = "inferObjectTypeFromFieldName" =>
    inferObjectTypeFromFieldName(fnCall.out) = fnCall.out

\* the step calls runBolaChecks: the delay after the last list request elapses
CallsRunBolaChecks ==
  \/ (pc = "depthDelay" /\ Len(listFields) = 0)
  \/ (pc = "listDelay" /\ listIdx = Len(listFields))

BolaSkipped == Len(target.userContexts) < 2 \/ ~IsSome(schema)

\* C12: with fewer than 2 userContexts or a null schema, runBolaChecks
\* issues no request and leaves the findings list as it was.
C12_SkipLeavesFindings ==
  [][ (CallsRunBolaChecks /\ BolaSkipped) =>
        /\ findings' = findings
        /\ requests' = requests
        /\ pc' = "returned" ]_vars

\* a scan of two users that completed without a schema and without BOLA requests
C12_Witness ==
  /\ pc = "returned"
  /\ result.status = "Completed"
  /\ Len(target.userContexts) >= 2
  /\ ~IsSome(schema)
  /\ Len(result.findings) > 0
  /\ \A i \in 1..Len(requests) : requests[i].phase # "bola"

PhaseRank(phase) ==
  CASE phase = "connectivity" -> 1
    [] phase = "introspection" -> 2
    [] phase = "depth" -> 3
    [] phase = "list" -> 4
    [] phase = "bola" -> 5

RequestsOfPhase(phase) == SelectSeq(requests, LAMBDA q : q.phase = phase)

\* the probes of a BOLA iteration that meet their tuple first, in order
FirstsOf(plan) ==
  LET firsts == SelectSeq([a \in 1..Len(plan) |-> a],
                          LAMBDA a : \A b \in 1..(a - 1) :
                             ProbeTuple(probeOf(plan[b])) # ProbeTuple(probeOf(plan[a])))
  IN [k \in 1..Len(firsts) |-> probeOf(plan[firsts[k]])]

PlanFirsts == FirstsOf(bolaPlan)

\* the requests follow fields, the analyser's field order
FollowsFields(ls, fields) ==
  /\ Len(ls) <= Len(fields)
  /\ \A i \in 1..Len(ls) : ls[i].query = fields[i]

\* the requests follow firsts, the BOLA iteration order
FollowsIteration(bs, firsts) ==
  /\ Len(bs) <= Len(firsts)
  /\ \A k \in 1..Len(bs) : bs[k].probe = firsts[k]

\* the requests issued so far follow the order of the phases, the list
\* requests the analyser's field order and the BOLA requests the iteration
RequestsInOrder ==
  /\ \A i \in 1..(Len(requests) - 1) :
       PhaseRank(requests[i].phase) <= PhaseRank(requests[i + 1].phase)
  /\ \A phase \in {"connectivity", "introspection", "depth"} :
       Len(RequestsOfPhase(phase)) <= 1
  /\ FollowsFields(RequestsOfPhase("list"), listFields)
  /\ FollowsIteration(RequestsOfPhase("bola"), PlanFirsts)

\* Completed is set only when every phase has ended
CompletedAfterBola ==
  scanStatus = "Completed" =>
    /\ pc = "returned"
    /\ \A phase \in {"connectivity", "introspection", "depth"} :
         Len(RequestsOfPhase(phase)) = 1
    /\ Len(RequestsOfPhase("list")) = Len(listFields)
    /\ BolaSkipped \/ Len(RequestsOfPhase("bola")) = Len(PlanFirsts)

AwaitingResponse == pc \in {"connectivity", "introspection", "depth", "list", "bola"}

\* a request is issued only when the one before it has settled
OneAtATime ==
  requests' # requests =>
    /\ Len(requests') = Len(requests) + 1
    /\ SubSeq(requests', 1, Len(requests)) = requests
    /\ AwaitingResponse => IsSome(resp')

\* C13: within one scan the requests are issued one at a time, in the order
\* connectivity, introspection, depth, list probes in field order, BOLA probes
\* in iteration order, and status becomes Completed only after the BOLA phase.
C13_SequentialInPhaseOrder ==
  [](RequestsInOrder /\ CompletedAfterBola) /\ [][OneAtATime]_vars

\* a completed scan that issued its list request and several BOLA requests
C13_Witness ==
  /\ pc = "returned"
  /\ result.status = "Completed"
  /\ Len(RequestsOfPhase("list")) >= 1
  /\ Len(RequestsOfPhase("bola")) >= 4

\* the same scan with no other invocation beside it
RunAlone(t, server) == RunToEnd(Invocation(t, server))

Outcome(st) ==
  [settled |-> st.pc, status |-> st.scanStatus, findings |-> st.findings,
   error |-> st.scanError]

\* C14: an invocation of runScan that interleaves with another one ends
\* with the findings, status and error the same scan has when it runs alone
\* against the same server
C14_InterleavedScansIndependent ==
  \A s \in DOMAIN scans :
    Settled(scans[s]) =>
      Outcome(scans[s]) = Outcome(RunAlone(scans[s].target, scans[s].server))

\* two scans of the same target against the open server, both through their
\* BOLA probes and with findings of them
C14_Witness ==
  /\ Len(scans) = 2
  /\ scans[1].target = scans[2].target
  /\ scans[1].server = scans[2].server
  /\ \A s \in DOMAIN scans :
       /\ scans[s].pc = "returned"
       /\ scans[s].scanStatus = "Completed"
       /\ scans[s].testedVictimObjects # {}
       /\ \E i \in DOMAIN scans[s].findings : scans[s].findings[i].probe # NoProbe

JobIds == {JobId(j) : j \in DOMAIN jobs}

\* the row GET /scans/:jobId reads for job j carries the result of its scan
RowCarriesResult(j) ==
  LET found == SelectById(JobId(j))
      scanResult == Val(jobs[j].result)
  IN /\ Len(found) = 1
     /\ found[1].status = scanResult.status
     /\ found[1].findings = Some(stringify(scanResult.findings))
     /\ found[1].completed_at = Some(scanResult.completedAt)

\* C15: once the worker has finished the scan of a job, the row stored
\* under the job id carries the scan's final status, findings and
\* completed_at, and every row of the table is keyed by a job id
C15_AsStated ==
  /\ \A j \in DOMAIN jobs : jobs[j].state = "completed" => RowCarriesResult(j)
  /\ \A i \in DOMAIN rows : rows[i].id \in JobIds

Severe(fs) == \E i \in DOMAIN fs : fs[i].severity \in {"Critical", "High"}
CliExited(code) == cli.pc = "exited" /\ cli.exitCode = Some(code)
ScanSucceeded == Len(scans) = 1 /\ scans[1].pc = "returned" /\ scans[1].scanStatus = "Completed"

\* C16: the command line exits with 0 only after a scan that succeeded
\* without Critical or High finding; it exits with 1 after a scan with such a
\* finding, and on a setup error, where runScan is never called
C16_AsStated ==
  /\ CliExited(0) => ScanSucceeded /\ ~Severe(scans[1].findings)
  /\ (cli.pc = "exited" /\ Len(scans) = 1 /\ Severe(scans[1].findings)) => CliExited(1)
  /\ (cli.pc # "none" /\ setupError(Val(cli.file))) =>
        /\ scans = <<>>
        /\ cli.pc = "exited" => CliExited(1)

\* the step appends the Medium 'Potencial DoS por Profundidad' finding
DepthFindingAppended ==
  /\ Len(findings') = Len(findings) + 1
  /\ findings'[Len(findings')].severity = "Medium"
  /\ findings'[Len(findings')].description = "Potencial DoS por Profundidad"

\* the body of r carries no GraphQL errors
NoGraphQLErrors(r) ==
  \/ r.errors.tag = "absent"
  \/ (r.errors.tag = "array" /\ Len(r.errors.items) = 0)

\* C17: the depth check appends the Medium 'Potencial DoS por Profundidad'
\* finding only when the depth request is answered with HTTP 2xx and a body
\* without GraphQL errors.
C17_AsStated ==
  [][ (pc = "depth" /\ IsSome(resp') /\ DepthFindingAppended)
      => (Val(resp').kind = "ok" /\ NoGraphQLErrors(Val(resp'))) ]_vars

\* the request was aborted by the client on its timeout: an error code, a
\* message that mentions the timeout, no HTTP response
RequestTimedOut(r) ==
  /\ r.kind = "net"
  /\ IsSome(r.code)
  /\ includes(toLowerCase(r.message), "timeout")

\* the step appends one finding of that severity and description
Appended(severity, description) ==
  /\ Len(findings') = Len(findings) + 1
  /\ findings'[Len(findings')].severity = severity
  /\ findings'[Len(findings')].description = description

\* C18: a DoS probe whose request times out is reported by getErrorMessage
\* as 'Timeout de la petición' and appends the Medium 'Timeout en Chequeo
\* DoS' finding, not the Low 'Error Inesperado' one.
C18_AsStated ==
  [][ (pc \in {"depth", "list"} /\ IsSome(resp') /\ RequestTimedOut(Val(resp')))
      => /\ getErrorMessage(Val(resp')) = Return("Timeout de la petición")
         /\ Appended("Medium", "Timeout en Chequeo DoS") ]_vars

\* D is an object with a key other than __typename, or a non-empty array
CarriesData(d) ==
  \/ (d.tag = "object" /\ \E k \in 1..Len(d.keys) : d.keys[k] # "__typename")
  \/ (d.tag = "array" /\ d.len > 0)

\* C19: a BOLA probe answered with HTTP 2xx and no access-denial error
\* appends a finding if and only if the data of the probed field is an object
\* with a key other than __typename or a non-empty array.
C19_AsStated ==
  [][ (pc = "bola" /\ IsSome(resp') /\ Val(resp').kind = "ok" /\ ~AuthDenied(Val(resp')))
      => (findings' # findings <=> CarriesData(Val(resp').data)) ]_vars

\* the request failed: an HTTP error response, or no response at all
TransportFailure(r) == r.kind \in {"http", "net"}

\* the step appends the Low finding of the probe whose request is pending,
\* with the query of that request as evidence
BolaErrorFindingAppended ==
  /\ Appended("Low", "Error Inesperado en Prueba BOLA")
  /\ findings'[Len(findings')].subject = requests[Len(requests)].probe.fieldName
  /\ findings'[Len(findings')].probe = requests[Len(requests)].probe

\* C20: a BOLA probe whose request fails appends no finding when the HTTP
\* status is 401 or 403, and for every other failure exactly one Low 'Error
\* Inesperado en Prueba BOLA' finding with the query as evidence.
C20_AsStated ==
  [][ (pc = "bola" /\ IsSome(resp') /\ TransportFailure(Val(resp')))
      => IF Val(resp').kind = "http" /\ Val(resp').status \in {401, 403}
         THEN findings' = findings
         ELSE BolaErrorFindingAppended ]_vars

\* severity and description of the findings fs holds beyond its first n
AppendedBy(fs, n) ==
  [k \in 1..(Len(fs) - n) |-> <<fs[n + k].severity, fs[n + k].description>>]

IntrospectionEnabled == <<"Info", "Introspection Habilitada">>
IntrospectionErrors == <<"Info", "Introspection Query con Errores">>
IntrospectionFailed == <<"Low", "Introspection Deshabilitada o Fallida">>

DataReturned(r) == r.kind = "ok" /\ r.data.tag # "null"

\* what getSchema is said to append and return when its request settles with r
SchemaAsStated(r, got, n) ==
  /\ ~IsSome(got.thrown)
  /\ IF DataReturned(r)
     THEN /\ IsSome(got.schema)
          /\ AppendedBy(got.findings, n) =
               (IF r.errors.tag = "absent" THEN <<IntrospectionEnabled>>
                ELSE <<IntrospectionErrors, IntrospectionEnabled>>)
     ELSE /\ ~IsSome(got.schema)
          /\ AppendedBy(got.findings, n) = <<IntrospectionFailed>>

\* C21: getSchema appends the Info 'Introspection Habilitada' finding when
\* data is returned, preceded by the Info 'Introspection Query con Errores'
\* finding when errors accompany the data, and only the Low 'Introspection
\* Deshabilitada o Fallida' finding when no data is returned or the request
\* fails; the schema is non-null exactly with 'Introspection Habilitada',
\* and a null schema does not fail the scan.
C21_AsStated ==
  [][ (pc = "introspection" /\ IsSome(resp'))
      => /\ SchemaAsStated(Val(resp'), getSchema(Val(resp'), findings), Len(findings))
         /\ pc' = "depth" ]_vars

\* the probe failed: its request was rejected, or the errors of its answer
\* are malformed
ProbeFailed(r) == TransportFailure(r) \/ MalformedBody(r)

\* C22: a failed DoS or BOLA probe does not escape the prober: the scan stays
\* Running and goes on to the delay before the next probe, so that it ends
\* Completed.
C22_AsStated ==
  [][ (pc \in {"depth", "list", "bola"} /\ IsSome(resp') /\ ProbeFailed(Val(resp')))
      => /\ pc' \in {"depthDelay", "listDelay", "bolaDelay"}
         /\ scanStatus' = "Running" ]_vars

\* request rq probes, with the headers of an attacker, an object id that a
\* victim with another id owns for the return type of a point of interest
ProbesVictimObject(rq) ==
  \E a, v \in 1..Len(target.userContexts), p \in 1..Len(bolaPoints) :
    LET attacker == target.userContexts[a]
        victim == target.userContexts[v]
        point == bolaPoints[p]
    IN /\ attacker.id # victim.id
       /\ rq.probe.attacker = attacker.id
       /\ rq.probe.victim = victim.id
       /\ rq.authorization = buildHeaders(Some(attacker.authToken))
       /\ rq.probe.operation = point.operation
       /\ rq.probe.fieldName = point.fieldName
       /\ \E k \in 1..Len(ownedIds(victim, point.returnTypeName)) :
            rq.probe.objectId = ownedIds(victim, point.returnTypeName)[k]

\* C23: every BOLA request carries the headers built from the attacker's
\* authToken and probes an object id of ownedObjectIds[point.returnTypeName]
\* of a victim whose id differs from the attacker's; none is issued for a
\* context against itself or for a victim without ids of that type.
C23_ProbesOnlyVictimObjects ==
  \A i \in 1..Len(requests) :
    requests[i].phase = "bola" =>
      /\ requests[i].probe.attacker # requests[i].probe.victim
      /\ ProbesVictimObject(requests[i])

\* a finished run with three contexts, one of them owning nothing, in which a
\* context other than the first has probed as attacker
C23_Witness ==
  /\ pc = "returned"
  /\ Len(target.userContexts) = 3
  /\ \E v \in 1..Len(target.userContexts), p \in 1..Len(bolaPoints) :
       Len(ownedIds(target.userContexts[v], objectTypeOf(bolaPoints[p]))) = 0
  /\ \E i \in 1..Len(requests) :
       /\ requests[i].phase = "bola"
       /\ requests[i].authorization # initialHeaders

ProbePhases == {"depth", "list", "bola"}
DelaySteps == {"depthDelay", "listDelay", "bolaDelay"}

\* the milliseconds runScan waits at a delay
delayOf(at) ==
  IF at = "bolaDelay" THEN BOLA_INTER_REQUEST_DELAY ELSE DOS_INTER_REQUEST_DELAY

\* the step issues a probe request and a probe request was issued before it
NextProbeIssued ==
  /\ Len(requests) > 0
  /\ requests[Len(requests)].phase \in ProbePhases
  /\ Len(requests') = Len(requests) + 1

\* C24: a probe request that follows another probe request is issued when a
\* delay of 50 ms elapses, and that delay starts when the earlier probe
\* settles, whatever it settles with.
C24_DelayBetweenProbes ==
  [][ /\ NextProbeIssued => (pc \in DelaySteps /\ delayOf(pc) = 50)
      /\ (pc' \in DelaySteps /\ pc' # pc) => (pc \in ProbePhases /\ IsSome(resp')) ]_vars

\* a finished run whose list probe was rejected and whose BOLA probes followed
C24_Witness ==
  /\ pc = "returned"
  /\ result.status = "Completed"
  /\ HasFinding(findings, "Low", "Error Inesperado en Chequeo DoS")
  /\ Len(RequestsOfPhase("list")) >= 1
  /\ Len(RequestsOfPhase("bola")) >= 2

\* plan entries i and j differ in attacker id, operation, field name or object id
DistinctProbes(plan, i, j) == ProbeTuple(probeOf(plan[i])) # ProbeTuple(probeOf(plan[j]))

\* C25 as stated: plan entries that differ in (attacker.id, operation,
\* fieldName, objectId) have different keys, and an entry that differs from
\* every earlier entry is probed.
C25_AsStated ==
  fnCall.fn = "runBolaChecks" =>
    \A j \in 1..Len(fnCall.plan) :
      /\ \A i \in 1..(j - 1) :
           DistinctProbes(fnCall.plan, i, j)
             => testKey(fnCall.plan[i]) # testKey(fnCall.plan[j])
      /\ (\A i \in 1..(j - 1) : DistinctProbes(fnCall.plan, i, j))
           => j \in Range(fnCall.out)

\* the attacker of probe pr lists the probed object id among its own ids of
\* the point's return type
AttackerOwnsProbed(pr) ==
  \E a \in 1..Len(target.userContexts), p \in 1..Len(bolaPoints) :
    /\ target.userContexts[a].id = pr.attacker
    /\ bolaPoints[p].operation = pr.operation
    /\ bolaPoints[p].fieldName = pr.fieldName
    /\ pr.objectId \in Range(ownedIds(target.userContexts[a], bolaPoints[p].returnTypeName))

\* C26 as stated: no BOLA request is issued and no 'BOLA Detectado' finding
\* is reported for an object id the attacker lists in its own ownedObjectIds
\* for the point's return type.
C26_AsStated ==
  /\ \A i \in 1..Len(requests) :
       requests[i].phase = "bola" => ~AttackerOwnsProbed(requests[i].probe)
  /\ \A i \in 1..Len(findings) :
       findings[i].description = "BOLA Detectado" => ~AttackerOwnsProbed(findings[i].probe)

\* the longest list of object ids a context owns for one type
MaxOwnedIds ==
  LET types == UNION { DOMAIN target.userContexts[c].ownedObjectIds :
                         c \in 1..Len(target.userContexts) }
      lens == {0} \cup { Len(ownedIds(target.userContexts[c], t)) :
                           c \in 1..Len(target.userContexts), t \in types }
  IN CHOOSE m \in lens : \A l \in lens : l <= m

\* the requests issued so far stay within the bounds of the three loops
RequestBounds ==
  /\ Len(RequestsOfPhase("depth")) <= 1
  /\ \A i \in 1..Len(requests) :
       requests[i].phase = "depth" => FieldLevels(requests[i].query) <= DEFAULT_DEPTH_LIMIT
  /\ Len(RequestsOfPhase("list")) <= Len(listFields)
  /\ (pc = "returned" /\ scanStatus = "Completed")
       => Len(RequestsOfPhase("list")) = Len(listFields)
  /\ Len(RequestsOfPhase("bola"))
       <= Len(target.userContexts) * Len(bolaPoints) * MaxOwnedIds

====
